---- MODULE Spec2Model ----
(***************************************************************************)
(* Model of the dashboard's order-book depth and candlestick components    *)
(* (app/web/static/js/bookdepth.js, app/web/static/js/admin.js).           *)
(*                                                                         *)
(* JavaScript numbers are modelled as exact rationals [num, den] in lowest *)
(* terms with den > 0; the inputs are small integers.  A component method  *)
(* is an operator; calling it is an action that records the method in op,  *)
(* its argument in arg and its return value in ret.                        *)
(***************************************************************************)
EXTENDS Integers, Sequences, FiniteSets, TLC

VARIABLES
    bookDepth,                  \* book-depth prop: Null or [bids, asks]
    klines,                     \* klines-chart prop: sequence of candles (caller order)
    selectedVolumeCandleIndex,  \* parent's data field, passed down as a prop
    op,                         \* the method called last
    arg,                        \* its argument
    ret,                        \* what it returned (or emitted)
    crawlerAdmin,               \* data of the crawler-admin component
    tokensView,                 \* data of the Tokens component
    requests                    \* the fetch requests in flight

\* the pages around the two chart components
pages == <<crawlerAdmin, tokensView, requests>>

vars == <<bookDepth, klines, selectedVolumeCandleIndex, op, arg, ret, pages>>

\* null, for a field that otherwise holds an object; a missing or null
\* property of an object is a field the record does not have
Null == [null |-> TRUE]
Has(obj, field) == field \in DOMAIN obj
\* the 'no value' sentinel (an em dash in the source)
Dash == [text |-> "--"]
\* what (x / 0) * 100 formats to for x > 0
InfinityPct == [text |-> "Infinity%"]
\* null, for selectedVolumeCandleIndex (otherwise an index from 0)
NullIndex == -1

-----------------------------------------------------------------------------
(* Exact arithmetic                                                        *)

Abs(x) == IF x < 0 THEN -x ELSE x

RECURSIVE GCD(_, _)
GCD(a, b) == IF b = 0 THEN a ELSE GCD(b, a % b)

\* n/d in lowest terms, d # 0
Rat(n, d) ==
    LET s == IF d < 0 THEN -1 ELSE 1
        g == GCD(Abs(n), Abs(d))
    IN  [num |-> (s * n) \div g, den |-> (s * d) \div g]

RInt(n) == [num |-> n, den |-> 1]
RLe(a, b) == a.num * b.den <= b.num * a.den
RLt(a, b) == a.num * b.den < b.num * a.den
RMin(a, b) == IF RLe(a, b) THEN a ELSE b
RMax(a, b) == IF RLe(a, b) THEN b ELSE a
RAdd(a, b) == Rat(a.num * b.den + b.num * a.den, a.den * b.den)
RSub(a, b) == Rat(a.num * b.den - b.num * a.den, a.den * b.den)
RMul(a, b) == Rat(a.num * b.num, a.den * b.den)
\* a / b, b # 0
RDiv(a, b) == Rat(a.num * b.den, a.den * b.num)
RAbs(a) == [num |-> Abs(a.num), den |-> a.den]

SeqMax(s) == CHOOSE m \in {s[i] : i \in 1..Len(s)} : \A i \in 1..Len(s) : s[i] <= m

\* Array.prototype.slice(0, n)
Slice(s, n) == SubSeq(s, 1, IF Len(s) < n THEN Len(s) ELSE n)

\* Number.prototype.toFixed(2) of num/den, as a number of hundredths:
\* the nearest hundredth, the larger magnitude on a tie, sign kept
ToFixed2(r) ==
    LET m == (2 * 100 * Abs(r.num) + r.den) \div (2 * r.den)
    IN  IF r.num < 0 THEN -m ELSE m

-----------------------------------------------------------------------------
(* book-depth component                                                    *)

\* the visible depth window: slice(0, 20)
DepthWindow == 20

\* Number(x.price) * Number(x.quantity)
Notional(x) == x.price * x.quantity

\* (bd && bd.bids) ? bd.bids.slice(0, 20) : []
VisibleBids(bd) == IF bd # Null /\ Has(bd, "bids") THEN Slice(bd.bids, DepthWindow) ELSE <<>>
\* mutant of VisibleAsks: the slice(0, 20) is forgotten
VisibleAsksUncut(bd) == IF bd # Null /\ Has(bd, "asks") THEN bd.asks ELSE <<>>
VisibleAsks(bd) == IF bd # Null /\ Has(bd, "asks") THEN Slice(bd.asks, DepthWindow) ELSE <<>>

\* mutant of depthPctBid: the slice(0, 20) is forgotten
depthPctBidWholeSide(bd, b) ==
    LET bids == IF bd # Null /\ Has(bd, "bids") THEN bd.bids ELSE <<>>
        maxUsd == SeqMax([i \in 1..Len(bids) |-> Notional(bids[i])])
    IN  IF Len(bids) = 0 THEN RInt(0)
        ELSE IF maxUsd <= 0 THEN RInt(0)
        ELSE RMin(RInt(100), RMul(Rat(Notional(b), maxUsd), RInt(100)))

\* mutant of depthPctBid: only a maximum of exactly 0 gives 0
depthPctBidZeroOnly(bd, b) ==
    LET bids == VisibleBids(bd)
        maxUsd == SeqMax([i \in 1..Len(bids) |-> Notional(bids[i])])
    IN  IF Len(bids) = 0 THEN RInt(0)
        ELSE IF maxUsd = 0 THEN RInt(0)
        ELSE RMin(RInt(100), RMul(Rat(Notional(b), maxUsd), RInt(100)))

\* mutant of depthPctBid: the maximum is taken over both sides of the book
depthPctBidBothSides(bd, b) ==
    LET bids == VisibleBids(bd)
        both == bids \o VisibleAsks(bd)
        maxUsd == SeqMax([i \in 1..Len(both) |-> Notional(both[i])])
    IN  IF Len(bids) = 0 THEN RInt(0)
        ELSE IF maxUsd <= 0 THEN RInt(0)
        ELSE RMin(RInt(100), RMul(Rat(Notional(b), maxUsd), RInt(100)))

depthPctBid(bd, b) ==
    LET bids == VisibleBids(bd)
        maxUsd == SeqMax([i \in 1..Len(bids) |-> Notional(bids[i])])
    IN  IF Len(bids) = 0 THEN RInt(0)
        ELSE IF maxUsd <= 0 THEN RInt(0)
        ELSE RMin(RInt(100), RMul(Rat(Notional(b), maxUsd), RInt(100)))

depthPctAsk(bd, a) ==
    LET asks == VisibleAsks(bd)
        maxUsd == SeqMax([i \in 1..Len(asks) |-> Notional(asks[i])])
    IN  IF Len(asks) = 0 THEN RInt(0)
        ELSE IF maxUsd <= 0 THEN RInt(0)
        ELSE RMin(RInt(100), RMul(Rat(Notional(a), maxUsd), RInt(100)))

\* mutant of bookDepthSpreadPct: an equal book (ask = bid) is given a spread
bookDepthSpreadPctEqualBook(bd, rowIndex) ==
    LET bids == VisibleBids(bd)
        asks == VisibleAsks(bd)
    IN  IF rowIndex >= Len(bids) \/ rowIndex >= Len(asks) THEN Dash
        ELSE LET bidPrice == bids[rowIndex + 1].price
                 askPrice == asks[rowIndex + 1].price
                 mid == Rat(bidPrice + askPrice, 2)
             IN  IF bidPrice = 0 \/ askPrice = 0 \/ askPrice < bidPrice THEN Dash
                 ELSE IF mid.num = 0 THEN InfinityPct
                 ELSE [hundredths |->
                          ToFixed2(RMul(RDiv(RInt(askPrice - bidPrice), mid), RInt(100)))]

\* mutant of bookDepthSpreadPct: the doubled quotient of the inline copy
bookDepthSpreadPctDoubled(bd, rowIndex) ==
    LET bids == VisibleBids(bd)
        asks == VisibleAsks(bd)
    IN  IF rowIndex >= Len(bids) \/ rowIndex >= Len(asks) THEN Dash
        ELSE LET bidPrice == bids[rowIndex + 1].price
                 askPrice == asks[rowIndex + 1].price
                 mid == Rat(bidPrice + askPrice, 2)
             IN  IF bidPrice = 0 \/ askPrice = 0 \/ askPrice <= bidPrice THEN Dash
                 ELSE IF mid.num = 0 THEN InfinityPct
                 ELSE [hundredths |->
                          ToFixed2(RMul(RDiv(RMul(RInt(2), RInt(askPrice - bidPrice)), mid),
                                        RInt(100)))]

\* rowIndex counts from 0, as in the source; the result is the sentinel, or
\* the toFixed(2) text as a number of hundredths, or "Infinity%" when mid is 0
bookDepthSpreadPct(bd, rowIndex) ==
    LET bids == VisibleBids(bd)
        asks == VisibleAsks(bd)
    IN  IF rowIndex >= Len(bids) \/ rowIndex >= Len(asks) THEN Dash
        ELSE LET bidPrice == bids[rowIndex + 1].price
                 askPrice == asks[rowIndex + 1].price
                 mid == Rat(bidPrice + askPrice, 2)
             IN  \* !bidPrice || !askPrice || askPrice <= bidPrice
                 IF bidPrice = 0 \/ askPrice = 0 \/ askPrice <= bidPrice THEN Dash
                 ELSE IF mid.num = 0 THEN InfinityPct
                 ELSE [hundredths |->
                          ToFixed2(RMul(RDiv(RInt(askPrice - bidPrice), mid), RInt(100)))]

\* mutant of adminBookDepthSpreadPct: the quotient is not doubled
adminBookDepthSpreadPctSingle(bd, rowIndex) ==
    LET bids == IF bd # Null /\ Has(bd, "bids") THEN Slice(bd.bids, DepthWindow) ELSE <<>>
        asks == IF bd # Null /\ Has(bd, "asks") THEN Slice(bd.asks, DepthWindow) ELSE <<>>
    IN  IF rowIndex >= Len(bids) \/ rowIndex >= Len(asks) THEN Dash
        ELSE LET bidPrice == bids[rowIndex + 1].price
                 askPrice == asks[rowIndex + 1].price
                 mid == Rat(bidPrice + askPrice, 2)
             IN  IF bidPrice = 0 \/ askPrice = 0 \/ askPrice <= bidPrice THEN Dash
                 ELSE IF mid.num = 0 THEN InfinityPct
                 ELSE [hundredths |->
                          ToFixed2(RMul(RDiv(RInt(askPrice - bidPrice), mid), RInt(100)))]

\* the inline copy of the crawler-admin component of admin.js; bd is
\* this.selectedIteration && this.selectedIteration.book_depth
adminBookDepthSpreadPct(bd, rowIndex) ==
    LET bids == IF bd # Null /\ Has(bd, "bids") THEN Slice(bd.bids, DepthWindow) ELSE <<>>
        asks == IF bd # Null /\ Has(bd, "asks") THEN Slice(bd.asks, DepthWindow) ELSE <<>>
    IN  IF rowIndex >= Len(bids) \/ rowIndex >= Len(asks) THEN Dash
        ELSE LET bidPrice == bids[rowIndex + 1].price
                 askPrice == asks[rowIndex + 1].price
                 mid == Rat(bidPrice + askPrice, 2)
             IN  IF bidPrice = 0 \/ askPrice = 0 \/ askPrice <= bidPrice THEN Dash
                 ELSE IF mid.num = 0 THEN InfinityPct
                 \* (2 * (askPrice - bidPrice) / mid) * 100
                 ELSE [hundredths |->
                          ToFixed2(RMul(RDiv(RMul(RInt(2), RInt(askPrice - bidPrice)), mid),
                                        RInt(100)))]

-----------------------------------------------------------------------------
(* klines-chart component                                                  *)

SetMin(S) == CHOOSE m \in S : \A x \in S : m <= x
SetMax(S) == CHOOSE m \in S : \A x \in S : x <= m

\* {}: a style object with no property
NoStyle == [none |-> TRUE]

\* mutant of klinesScale: a flat range (high = low) is not widened
klinesScaleFlat(k) ==
    IF Len(k) = 0 THEN [min |-> 0, max |-> 1]
    ELSE LET lows == {k[i].low_price : i \in {j \in 1..Len(k) : Has(k[j], "low_price")}}
             highs == {k[i].high_price : i \in {j \in 1..Len(k) : Has(k[j], "high_price")}}
             low == IF lows = {} THEN 0 ELSE SetMin(lows)
             high == IF highs = {} \/ SetMax(highs) < low THEN low + 1 ELSE SetMax(highs)
         IN  [min |-> low, max |-> high]

\* low and high start at Infinity and -Infinity and are moved by every
\* candle that has the field
klinesScale(k) ==
    IF Len(k) = 0 THEN [min |-> 0, max |-> 1]
    ELSE LET lows == {k[i].low_price : i \in {j \in 1..Len(k) : Has(k[j], "low_price")}}
             highs == {k[i].high_price : i \in {j \in 1..Len(k) : Has(k[j], "high_price")}}
             \* if (low === Infinity) low = 0
             low == IF lows = {} THEN 0 ELSE SetMin(lows)
             \* if (high <= low) high = low + 1
             high == IF highs = {} \/ SetMax(highs) <= low THEN low + 1 ELSE SetMax(highs)
         IN  [min |-> low, max |-> high]

\* mutant of candleWickStyle: the 0.5 floor is dropped
candleWickStyleNoFloor(k, c) ==
    IF Len(k) = 0 THEN NoStyle
    ELSE LET scale == klinesScale(k)
             range == scale.max - scale.min
         IN  IF range = 0 THEN NoStyle
             ELSE LET lowPct == RMul(Rat(c.low_price - scale.min, range), RInt(100))
                      highPct == RMul(Rat(c.high_price - scale.min, range), RInt(100))
                  IN  [height |-> RSub(highPct, lowPct), bottom |-> lowPct, width |-> "1px"]

candleWickStyle(k, c) ==
    IF Len(k) = 0 THEN NoStyle
    ELSE LET scale == klinesScale(k)
             range == scale.max - scale.min
         IN  IF range = 0 THEN NoStyle
             ELSE LET lowPct == RMul(Rat(c.low_price - scale.min, range), RInt(100))
                      highPct == RMul(Rat(c.high_price - scale.min, range), RInt(100))
                      height == RMax(Rat(1, 2), RSub(highPct, lowPct))
                  IN  [height |-> height, bottom |-> lowPct, width |-> "1px"]

candleBodyStyle(k, c) ==
    IF Len(k) = 0 THEN NoStyle
    ELSE LET scale == klinesScale(k)
             range == scale.max - scale.min
         IN  IF range = 0 THEN NoStyle
             ELSE LET openPct == RMul(Rat(c.open_price - scale.min, range), RInt(100))
                      closePct == RMul(Rat(c.close_price - scale.min, range), RInt(100))
                      bottom == RMin(openPct, closePct)
                      height == RMax(RInt(1), RAbs(RSub(closePct, openPct)))
                  IN  [height |-> height, bottom |-> bottom, width |-> "100%"]

\* mutant of candleColStyle: the width is 90 percent of the slot, with no floor
candleColStyleNoFloor(k, idx) ==
    IF Len(k) = 0 THEN NoStyle
    ELSE LET w == Rat(100, Len(k))
         IN  [left |-> RMul(Rat(idx, Len(k)), RInt(100)),
              width |-> RMul(w, Rat(9, 10))]

candleColStyle(k, idx) ==
    IF Len(k) = 0 THEN NoStyle
    ELSE LET w == Rat(100, Len(k))
         IN  [left |-> RMul(Rat(idx, Len(k)), RInt(100)),
              width |-> RMax(Rat(3, 2), RMul(w, Rat(9, 10)))]

\* mutant of EffectiveVolume: usd_volume is taken whenever it is present
EffectiveVolumeUsdFirst(c) ==
    IF Has(c, "usd_volume") THEN c.usd_volume
    ELSE IF Has(c, "coin_volume") THEN c.coin_volume ELSE 0

\* c.usd_volume != null && c.usd_volume > 0 ? Number(c.usd_volume)
\*                                           : Number(c.coin_volume || 0)
EffectiveVolume(c) ==
    IF Has(c, "usd_volume") /\ c.usd_volume > 0 THEN c.usd_volume
    ELSE IF Has(c, "coin_volume") THEN c.coin_volume ELSE 0

RECURSIVE VolumeMaxFrom(_, _, _)
VolumeMaxFrom(k, i, max) ==
    IF i > Len(k) THEN max
    ELSE VolumeMaxFrom(k, i + 1, IF EffectiveVolume(k[i]) > max THEN EffectiveVolume(k[i]) ELSE max)

klinesVolumeMax(k) == IF Len(k) = 0 THEN 0 ELSE VolumeMaxFrom(k, 1, 0)

\* mutant of volumeBarStyle: the early return on a zero maximum is dropped,
\* so that hPct = 0 meets the 2 percent floor
volumeBarStyleNoEarlyReturn(k, c, idx) ==
    IF Len(k) = 0 THEN NoStyle
    ELSE LET maxVol == klinesVolumeMax(k)
             vol == EffectiveVolume(c)
             hPct == IF maxVol > 0 THEN RMul(Rat(vol, maxVol), RInt(100)) ELSE RInt(0)
             style == candleColStyle(k, idx)
         IN  [left |-> style.left, width |-> style.width,
              height |-> RMax(RInt(2), hPct), bottom |-> "0"]

\* mutant of volumeBarStyle: the 2 percent floor is dropped
volumeBarStyleNoFloor(k, c, idx) ==
    IF Len(k) = 0 THEN NoStyle
    ELSE LET maxVol == klinesVolumeMax(k)
         IN  IF maxVol <= 0 THEN candleColStyle(k, idx)
             ELSE LET vol == EffectiveVolume(c)
                      hPct == IF maxVol > 0 THEN RMul(Rat(vol, maxVol), RInt(100)) ELSE RInt(0)
                      style == candleColStyle(k, idx)
                  IN  [left |-> style.left, width |-> style.width,
                       height |-> hPct, bottom |-> "0"]

volumeBarStyle(k, c, idx) ==
    IF Len(k) = 0 THEN NoStyle
    ELSE LET maxVol == klinesVolumeMax(k)
         IN  IF maxVol <= 0 THEN candleColStyle(k, idx)
             ELSE LET vol == EffectiveVolume(c)
                      hPct == IF maxVol > 0 THEN RMul(Rat(vol, maxVol), RInt(100)) ELSE RInt(0)
                      style == candleColStyle(k, idx)
                  IN  [left |-> style.left, width |-> style.width,
                       height |-> RMax(RInt(2), hPct), bottom |-> "0"]

\* mutant of getOriginalKlineIndex: off by one
getOriginalKlineIndexOffByOne(k, displayIdx) ==
    IF Len(k) # 0 THEN Len(k) - displayIdx ELSE 0

\* displayIdx and the result count from 0, as in the source
getOriginalKlineIndex(k, displayIdx) ==
    IF Len(k) # 0 THEN Len(k) - 1 - displayIdx ELSE 0

\* Array.prototype.reverse, on a copy
Reverse(s) == [i \in 1..Len(s) |-> s[Len(s) + 1 - i]]

\* mutant of klinesForChart: the copy is not reversed
klinesForChartNotReversed(k) == k

klinesForChart(k) == IF Len(k) = 0 THEN <<>> ELSE Reverse(k)

\* for (var i = 0; i <= n; i++) ticks.push(scale.min + (range * i / n))
PriceTicksFrom(lo, range, n) == [i \in 1..(n + 1) |-> RAdd(RInt(lo), Rat(range * (i - 1), n))]

\* mutant of klinesPriceTicks: the ticks are left in ascending order
klinesPriceTicksAscending(k) ==
    IF Len(k) = 0 THEN <<>>
    ELSE LET scale == klinesScale(k)
             range == scale.max - scale.min
         IN  IF range <= 0 THEN <<RInt(scale.min)>>
             ELSE PriceTicksFrom(scale.min, range, 5)

\* mutant of klinesPriceTicks: the check of an empty sequence is dropped
klinesPriceTicksNoEmptyCheck(k) ==
    LET scale == klinesScale(k)
        range == scale.max - scale.min
    IN  IF range <= 0 THEN <<RInt(scale.min)>>
        ELSE Reverse(PriceTicksFrom(scale.min, range, 5))

klinesPriceTicks(k) ==
    IF Len(k) = 0 THEN <<>>
    ELSE LET scale == klinesScale(k)
             range == scale.max - scale.min
         IN  IF range <= 0 THEN <<RInt(scale.min)>>
             ELSE Reverse(PriceTicksFrom(scale.min, range, 5))

\* k.slice().reverse(): the array that is returned and the array k after it
\* mutant of SliceReverse: k.reverse(), which reverses k in place
ReverseInPlace(k) == [returned |-> Reverse(k), original |-> Reverse(k)]
SliceReverse(k) == [returned |-> Reverse(k), original |-> k]

\* ((Number(tick) - scale.min) / range) * 100
priceTickBottomPct(k, tick) ==
    IF Len(k) = 0 THEN RInt(0)
    ELSE LET scale == klinesScale(k)
             range == scale.max - scale.min
         IN  IF range <= 0 THEN RInt(0)
             ELSE RMul(RDiv(RSub(tick, RInt(scale.min)), RInt(range)), RInt(100))

\* toLocaleString with day, month, hour and minute: the seconds are dropped
formatKlineTime(utc) == [minute |-> utc \div 60]

RECURSIVE TimeLabelsFrom(_, _, _)
\* for (var i = 0; i < len; i += step) out.push(...)
TimeLabelsFrom(k, i, step) ==
    IF i >= Len(k) THEN <<>>
    ELSE <<[index |-> i, label |-> formatKlineTime(k[i + 1].utc_open_time),
            leftPct |-> RMul(Rat(i, Len(k) - 1), RInt(100))]>>
         \o TimeLabelsFrom(k, i + step, step)

\* mutant of klinesTimeLabels: the label of the last candle is never appended
klinesTimeLabelsNoAppend(kl) ==
    LET k == klinesForChart(kl)
        len == Len(k)
    IN  IF len = 0 THEN <<>>
        ELSE IF len = 1
             THEN <<[index |-> 0, label |-> formatKlineTime(k[1].utc_open_time), leftPct |-> RInt(0)]>>
        ELSE LET step == IF len \div 6 > 1 THEN len \div 6 ELSE 1
             IN  TimeLabelsFrom(k, 0, step)

\* mutant of klinesTimeLabels: the last label is appended at >= step * 0.5
klinesTimeLabelsEagerAppend(kl) ==
    LET k == klinesForChart(kl)
        len == Len(k)
    IN  IF len = 0 THEN <<>>
        ELSE IF len = 1
             THEN <<[index |-> 0, label |-> formatKlineTime(k[1].utc_open_time), leftPct |-> RInt(0)]>>
        ELSE LET step == IF len \div 6 > 1 THEN len \div 6 ELSE 1
                 out == TimeLabelsFrom(k, 0, step)
             IN  IF 2 * (len - 1 - out[Len(out)].index) >= step
                 THEN out \o <<[index |-> len - 1,
                                label |-> formatKlineTime(k[len].utc_open_time),
                                leftPct |-> RInt(100)]>>
                 ELSE out

klinesTimeLabels(kl) ==
    LET k == klinesForChart(kl)
        len == Len(k)
    IN  IF len = 0 THEN <<>>
        ELSE IF len = 1
             THEN <<[index |-> 0, label |-> formatKlineTime(k[1].utc_open_time), leftPct |-> RInt(0)]>>
        ELSE LET step == IF len \div 6 > 1 THEN len \div 6 ELSE 1
                 out == TimeLabelsFrom(k, 0, step)
             IN  \* len - 1 - out[out.length - 1].index > step * 0.5
                 IF 2 * (len - 1 - out[Len(out)].index) > step
                 THEN out \o <<[index |-> len - 1,
                                label |-> formatKlineTime(k[len].utc_open_time),
                                leftPct |-> RInt(100)]>>
                 ELSE out

\* mutant of ToggleSelected: a click on the selected bar keeps it selected
ToggleSelectedKeep(selected, originalIdx) == originalIdx

\* the parent's handler of volume-bar-click (onKlinesVolumeBarClick), and the
\* inline chart's onVolumeBarClick: a toggle
ToggleSelected(selected, originalIdx) == IF selected = originalIdx THEN NullIndex ELSE originalIdx

-----------------------------------------------------------------------------
(* Initial data of the pages                                               *)

\* error: null (shown by v-if="error", so null and '' are alike)
NoText == ""

\* data() of crawler-admin and of crawler2-admin: the fields of the job
\* panel and of the iteration modal
CrawlerAdminData ==
    [loading |-> FALSE,
     jobs |-> <<>>,
     selectedJob |-> Null,
     jobIterations |-> <<>>,
     loadingIterations |-> FALSE,
     iterationsPage |-> 1,
     statusFilter |-> "",
     tokenSearchQuery |-> "",
     hideIgnoreRecords |-> FALSE,
     selectedIteration |-> Null,
     showIterationModal |-> FALSE,
     loadingIterationDetail |-> FALSE,
     error |-> NoText]

\* formToken, existingToken: no token
NoToken == [none |-> TRUE]

\* data() of Tokens, after the first loadTokens has delivered the list
TokensData(list) ==
    [tokens |-> list,
     loading |-> FALSE,
     error |-> NoText,
     showFormModal |-> FALSE,
     formToken |-> NoToken,
     formSymbol |-> "",
     saving |-> FALSE,
     confirmDuplicate |-> [show |-> FALSE, message |-> "", existingToken |-> NoToken],
     pendingAction |-> "null",
     togglingId |-> NullIndex]

\* the pages are mounted and nothing is in flight
PagesIdle ==
    /\ crawlerAdmin = CrawlerAdminData
    /\ tokensView = TokensData(<<>>)
    /\ requests = <<>>

-----------------------------------------------------------------------------
(* Inputs                                                                  *)

MaxLevels == 2

PriceVals == {-1, 0, 1, 2}
QtyVals == {-1, 0, 1}
\* levels for the bar widths, of notional -2 .. 2
Levels == [price : {0, 1, 2}, quantity : QtyVals]

SeqsUpTo(S, n) == UNION {[1..k -> S] : k \in 0..n}

\* a side longer than the window: DepthWindow copies of f, then t
LongSide(f, t) == [i \in 1..(DepthWindow + 1) |-> IF i <= DepthWindow THEN f ELSE t]

Sides == SeqsUpTo(Levels, MaxLevels) \cup {LongSide(f, t) : f, t \in Levels}
OtherSides == {<<>>, <<[price |-> 2, quantity |-> 1]>>}

\* one side arbitrary, the other missing or one of a few
DepthBooks ==
    {Null} \cup {[bids |-> s] : s \in Sides} \cup {[asks |-> s] : s \in Sides}
           \cup {[bids |-> s, asks |-> t] : s \in Sides, t \in OtherSides}
           \cup {[bids |-> t, asks |-> s] : s \in Sides, t \in OtherSides}

\* for the spread only the prices matter
PriceLevels == [price : PriceVals, quantity : {1}]
PriceSides == SeqsUpTo(PriceLevels, MaxLevels) \cup {LongSide(f, t) : f, t \in PriceLevels}
\* bids [{100, 1}], asks [{101, 1}]
ExampleBook ==
    [bids |-> <<[price |-> 100, quantity |-> 1]>>, asks |-> <<[price |-> 101, quantity |-> 1]>>]
SpreadBooks ==
    {Null} \cup {[bids |-> s] : s \in PriceSides} \cup {[asks |-> s] : s \in PriceSides}
           \cup [bids : PriceSides, asks : PriceSides] \cup {ExampleBook}

-----------------------------------------------------------------------------
(* Calls of the book-depth methods                                         *)

NoChart == klines = <<>> /\ selectedVolumeCandleIndex = NullIndex

InitDepth ==
    /\ bookDepth \in DepthBooks
    /\ NoChart
    /\ op = "none" /\ arg = Null /\ ret = Null
    /\ PagesIdle

InitSpread ==
    /\ bookDepth \in SpreadBooks
    /\ NoChart
    /\ op = "none" /\ arg = Null /\ ret = Null
    /\ PagesIdle

CallDepthPctBid(b) ==
    /\ op' = "depthPctBid" /\ arg' = [level |-> b]
    /\ ret' = depthPctBid(bookDepth, b)
    /\ UNCHANGED <<bookDepth, klines, selectedVolumeCandleIndex, pages>>

CallDepthPctAsk(a) ==
    /\ op' = "depthPctAsk" /\ arg' = [level |-> a]
    /\ ret' = depthPctAsk(bookDepth, a)
    /\ UNCHANGED <<bookDepth, klines, selectedVolumeCandleIndex, pages>>

\* the divider column: v-for="(n, i) in 20"
CallBookDepthSpreadPct(i) ==
    /\ op' = "bookDepthSpreadPct" /\ arg' = [rowIndex |-> i]
    /\ ret' = bookDepthSpreadPct(bookDepth, i)
    /\ UNCHANGED <<bookDepth, klines, selectedVolumeCandleIndex, pages>>

NextDepth ==
    \/ \E b \in Levels : CallDepthPctBid(b)
    \/ \E a \in Levels : CallDepthPctAsk(a)

\* the divider column of the inline order book of admin.js
CallAdminBookDepthSpreadPct(i) ==
    /\ op' = "adminBookDepthSpreadPct" /\ arg' = [rowIndex |-> i]
    /\ ret' = adminBookDepthSpreadPct(bookDepth, i)
    /\ UNCHANGED <<bookDepth, klines, selectedVolumeCandleIndex, pages>>

NextSpread ==
    \/ \E i \in 0..(DepthWindow - 1) : CallBookDepthSpreadPct(i)
    \/ \E i \in 0..(DepthWindow - 1) : CallAdminBookDepthSpreadPct(i)

SpecDepth == InitDepth /\ [][NextDepth]_vars
SpecSpread == InitSpread /\ [][NextSpread]_vars

-----------------------------------------------------------------------------
(* Candle inputs                                                           *)

MaxKlines == 2
MaxCandles == 20

CandlePrices == {4, 5, 6}
Shapes == [open_price : CandlePrices, high_price : CandlePrices,
           low_price : CandlePrices, close_price : CandlePrices]
WellFormed(c) ==
    /\ c.low_price <= c.open_price /\ c.low_price <= c.close_price
    /\ c.open_price <= c.high_price /\ c.close_price <= c.high_price
\* the invariant of a candle is not enforced: two shapes that break it
Garbage ==
    {[open_price |-> 5, high_price |-> 4, low_price |-> 6, close_price |-> 5],
     [open_price |-> 6, high_price |-> 5, low_price |-> 4, close_price |-> 4]}
PriceCandles == {c \in Shapes : WellFormed(c)} \cup Garbage

Flat == [open_price |-> 5, high_price |-> 5, low_price |-> 5, close_price |-> 5]
Volumes == {0, 1, 2}
\* usd_volume and coin_volume may each be missing (null)
VolumeCandles ==
    {Flat} \cup {Flat @@ ("coin_volume" :> v) : v \in Volumes}
           \cup {Flat @@ ("usd_volume" :> u) : u \in Volumes}
           \cup {Flat @@ ("coin_volume" :> v) @@ ("usd_volume" :> u) : v, u \in Volumes}

\* the candles of a response are one minute apart, oldest first
Stamp(s) == [i \in 1..Len(s) |-> s[i] @@ ("utc_open_time" :> 60 * i)]

CandleKlines ==
    {Stamp(s) : s \in SeqsUpTo(PriceCandles, MaxKlines) \cup SeqsUpTo(VolumeCandles, MaxKlines)}

\* n candles that differ in their open time only
ChartKlines == {Stamp([i \in 1..n |-> Flat @@ ("coin_volume" :> 1)]) : n \in 0..MaxCandles}

-----------------------------------------------------------------------------
(* Calls of the klines-chart methods and computed properties               *)

NoBook == bookDepth = Null

InitCandle ==
    /\ klines \in CandleKlines
    /\ selectedVolumeCandleIndex = NullIndex
    /\ NoBook
    /\ op = "none" /\ arg = Null /\ ret = Null
    /\ PagesIdle

InitChart ==
    /\ klines \in ChartKlines
    /\ selectedVolumeCandleIndex = NullIndex
    /\ NoBook
    /\ op = "none" /\ arg = Null /\ ret = Null
    /\ PagesIdle

\* the indices of v-for="(c, idx) in klinesForChart"
DisplayIndices == 0..(Len(klinesForChart(klines)) - 1)
DisplayCandle(idx) == klinesForChart(klines)[idx + 1]

CallKlinesScale ==
    /\ op' = "klinesScale" /\ arg' = Null
    /\ ret' = klinesScale(klines)
    /\ UNCHANGED <<bookDepth, klines, selectedVolumeCandleIndex, pages>>

CallCandleWickStyle(c, idx) ==
    /\ op' = "candleWickStyle" /\ arg' = [c |-> c, idx |-> idx]
    /\ ret' = candleWickStyle(klines, c)
    /\ UNCHANGED <<bookDepth, klines, selectedVolumeCandleIndex, pages>>

CallCandleBodyStyle(c, idx) ==
    /\ op' = "candleBodyStyle" /\ arg' = [c |-> c, idx |-> idx]
    /\ ret' = candleBodyStyle(klines, c)
    /\ UNCHANGED <<bookDepth, klines, selectedVolumeCandleIndex, pages>>

CallKlinesVolumeMax ==
    /\ op' = "klinesVolumeMax" /\ arg' = Null
    /\ ret' = [max |-> klinesVolumeMax(klines)]
    /\ UNCHANGED <<bookDepth, klines, selectedVolumeCandleIndex, pages>>

CallVolumeBarStyle(c, idx) ==
    /\ op' = "volumeBarStyle" /\ arg' = [c |-> c, idx |-> idx]
    /\ ret' = volumeBarStyle(klines, c, idx)
    /\ UNCHANGED <<bookDepth, klines, selectedVolumeCandleIndex, pages>>

CallCandleColStyle(c, idx) ==
    /\ op' = "candleColStyle" /\ arg' = [c |-> c, idx |-> idx]
    /\ ret' = candleColStyle(klines, idx)
    /\ UNCHANGED <<bookDepth, klines, selectedVolumeCandleIndex, pages>>

CallKlinesPriceTicks ==
    /\ op' = "klinesPriceTicks" /\ arg' = Null
    /\ ret' = [ticks |-> klinesPriceTicks(klines)]
    /\ UNCHANGED <<bookDepth, klines, selectedVolumeCandleIndex, pages>>

CallKlinesTimeLabels ==
    /\ op' = "klinesTimeLabels" /\ arg' = Null
    /\ ret' = [labels |-> klinesTimeLabels(klines)]
    /\ UNCHANGED <<bookDepth, klines, selectedVolumeCandleIndex, pages>>

CallGetOriginalKlineIndex(displayIdx) ==
    /\ op' = "getOriginalKlineIndex" /\ arg' = [displayIdx |-> displayIdx]
    /\ ret' = [index |-> getOriginalKlineIndex(klines, displayIdx)]
    /\ UNCHANGED <<bookDepth, klines, selectedVolumeCandleIndex, pages>>

\* @click.stop="onVolumeBarClick(c, idx)" of klines-chart: the component emits
\* volume-bar-click with the original index, and the parent's listener
\* onKlinesVolumeBarClick runs within the emit
VolumeBarClick(idx) ==
    LET originalIdx == getOriginalKlineIndex(klines, idx)
    IN  /\ op' = "onVolumeBarClick" /\ arg' = [c |-> DisplayCandle(idx), displayIdx |-> idx]
        /\ ret' = [emitted |-> originalIdx]
        /\ selectedVolumeCandleIndex' = ToggleSelected(selectedVolumeCandleIndex, originalIdx)
        /\ UNCHANGED <<bookDepth, klines, pages>>

\* @click.stop="onVolumeBarClick(c, getOriginalKlineIndex(idx))" of the inline
\* chart of admin.js
InlineVolumeBarClick(idx) ==
    LET originalIdx == getOriginalKlineIndex(klines, idx)
    IN  /\ op' = "inlineOnVolumeBarClick" /\ arg' = [c |-> DisplayCandle(idx), displayIdx |-> idx]
        /\ ret' = [emitted |-> originalIdx]
        /\ selectedVolumeCandleIndex' = ToggleSelected(selectedVolumeCandleIndex, originalIdx)
        /\ UNCHANGED <<bookDepth, klines, pages>>

\* the candles the methods are called with: those of the v-for of the
\* template, and one direct call with a candle when there is nothing to draw
CandleArgs ==
    {<<DisplayCandle(idx), idx>> : idx \in DisplayIndices}
        \cup (IF Len(klines) = 0 THEN {<<Flat, 0>>} ELSE {})

NextCandle ==
    \/ CallKlinesScale
    \/ \E a \in CandleArgs : CallCandleWickStyle(a[1], a[2])
    \/ \E a \in CandleArgs : CallCandleBodyStyle(a[1], a[2])
    \/ \E a \in CandleArgs : CallCandleColStyle(a[1], a[2])
    \/ CallKlinesVolumeMax
    \/ \E a \in CandleArgs : CallVolumeBarStyle(a[1], a[2])
    \/ CallKlinesPriceTicks
    \/ CallKlinesTimeLabels

NextChart ==
    \/ CallKlinesTimeLabels
    \/ \E idx \in DisplayIndices : CallGetOriginalKlineIndex(idx)
    \/ \E idx \in DisplayIndices : VolumeBarClick(idx)
    \/ \E idx \in DisplayIndices : InlineVolumeBarClick(idx)

SpecCandle == InitCandle /\ [][NextCandle]_vars
SpecChart == InitChart /\ [][NextChart]_vars

-----------------------------------------------------------------------------
(* Properties of the book-depth component                                  *)

IsDepthCall == op \in {"depthPctBid", "depthPctAsk"}
\* the side a depthPct call reads, whole (not cut to the window)
CalledSide ==
    LET f == IF op = "depthPctBid" THEN "bids" ELSE "asks"
    IN  IF bookDepth # Null /\ Has(bookDepth, f) THEN bookDepth[f] ELSE <<>>
ArgInSide == \E i \in 1..Len(CalledSide) : CalledSide[i] = arg.level
ArgVisible ==
    \E i \in 1..Len(CalledSide) : i <= DepthWindow /\ CalledSide[i] = arg.level
\* i is a level of the largest notional among the first 20 of the called side
IsWindowMax(i) ==
    /\ i \in 1..Len(CalledSide) /\ i <= DepthWindow
    /\ \A j \in 1..Len(CalledSide) :
          j <= DepthWindow => Notional(CalledSide[j]) <= Notional(CalledSide[i])

\* C1: for every snapshot and every price level of it, depthPctBid and
\* depthPctAsk return a value in the closed range [0, 100].
C1_BarWidthInRange ==
    (IsDepthCall /\ ArgInSide) => (RLe(RInt(0), ret) /\ RLe(ret, RInt(100)))

\* C10: for a visible level of a side whose largest notional among its first
\* 20 levels is positive, the bar width is notional / maxNotional x 100, and
\* so exactly 100 for a level of that largest notional.
C10_BarWidthIsShareOfWindowMax ==
    (IsDepthCall /\ ArgVisible) =>
        \A i \in 1..Len(CalledSide) :
            (IsWindowMax(i) /\ Notional(CalledSide[i]) > 0) =>
                /\ ret.num * Notional(CalledSide[i]) = 100 * Notional(arg.level) * ret.den
                /\ (Notional(arg.level) = Notional(CalledSide[i]) => ret = RInt(100))

\* C10 witness: a visible level of the window's largest notional got 100 while
\* a level beyond the window has a larger notional
C10_Witness ==
    /\ op = "depthPctBid" /\ ArgVisible
    /\ Len(CalledSide) > DepthWindow
    /\ Notional(CalledSide[DepthWindow + 1]) > Notional(arg.level)
    /\ ret = RInt(100)

IsSpreadCall == op = "bookDepthSpreadPct"
RowOnBothSides ==
    /\ bookDepth # Null /\ Has(bookDepth, "bids") /\ Has(bookDepth, "asks")
    /\ arg.rowIndex < DepthWindow
    /\ arg.rowIndex < Len(bookDepth.bids) /\ arg.rowIndex < Len(bookDepth.asks)
RowBid == bookDepth.bids[arg.rowIndex + 1].price
RowAsk == bookDepth.asks[arg.rowIndex + 1].price

\* C2: bookDepthSpreadPct returns the sentinel for row i whenever a side has
\* no level at row i within its first 20, or the bid price is <= 0, or the
\* ask price is <= 0, or ask <= bid; a number only when 0 < bid < ask.
C2_SentinelUnlessValidRow ==
    IsSpreadCall => (ret # Dash => (RowOnBothSides /\ 0 < RowBid /\ RowBid < RowAsk))

\* C3: on a row where both sides have a level and askPrice <= bidPrice,
\* bookDepthSpreadPct returns the sentinel, never a number.
C3_CrossedRowIsSentinel ==
    (IsSpreadCall /\ RowOnBothSides /\ RowAsk <= RowBid) => ret = Dash

\* C3 witness: an equal book at positive prices was given the sentinel
C3_Witness ==
    /\ IsSpreadCall /\ RowOnBothSides
    /\ RowAsk = RowBid /\ RowBid > 0
    /\ ret = Dash

-----------------------------------------------------------------------------
(* Properties of the klines-chart component                                *)

LabelIndices == {ret.labels[i].index : i \in 1..Len(ret.labels)}
LastLabelIndex == ret.labels[Len(ret.labels)].index
LabelStep == IF Len(klines) \div 6 > 1 THEN Len(klines) \div 6 ELSE 1

\* C4 as stated: klinesTimeLabels always contains a label whose index is
\* length - 1, for every candle sequence of length > 1.
C4_LastCandleAlwaysLabelled ==
    (op = "klinesTimeLabels" /\ Len(klines) > 1) => (Len(klines) - 1) \in LabelIndices

\* C4 as amended: for length > 1 the last label is at most step x 0.5 short of
\* length - 1, with step = max(1, floor(length / 6)); index length - 1 is
\* labelled exactly when (length - 1) mod step is 0 or more than step x 0.5,
\* which is every length up to 11.
C4_LastLabelNearLastCandle ==
    (op = "klinesTimeLabels" /\ Len(klines) > 1) =>
        LET last == Len(klines) - 1
            rem == last % LabelStep
        IN  /\ LastLabelIndex <= last
            /\ 2 * (last - LastLabelIndex) <= LabelStep
            /\ (last \in LabelIndices) <=> (rem = 0 \/ 2 * rem > LabelStep)
            /\ Len(klines) <= 11 => last \in LabelIndices

\* C4 witness: the label of the last candle was appended after the stepped ones
C4_Witness ==
    /\ op = "klinesTimeLabels" /\ Len(klines) > 1
    /\ LabelStep > 1 /\ (Len(klines) - 1) % LabelStep # 0
    /\ LastLabelIndex = Len(klines) - 1

IsVolumeClick == op \in {"onVolumeBarClick", "inlineOnVolumeBarClick"}
\* the bars that carry the class volume-bar-selected
HighlightedBars ==
    {idx \in DisplayIndices : selectedVolumeCandleIndex = getOriginalKlineIndex(klines, idx)}
\* the candle of the header label: klines[selectedVolumeCandleIndex]
HeaderCandle == klines[selectedVolumeCandleIndex + 1]

\* C5: a click on the volume bar at display position d emits count - 1 - d,
\* the candle shown at d is klines[count - 1 - d], and when the click leaves a
\* selection, the highlighted bar and the header label are that candle's.
C5_ClickCarriesOriginalIndex ==
    IsVolumeClick =>
        /\ ret.emitted = Len(klines) - 1 - arg.displayIdx
        /\ arg.c = klines[ret.emitted + 1]
        /\ DisplayCandle(arg.displayIdx) = klines[getOriginalKlineIndex(klines, arg.displayIdx) + 1]
        /\ selectedVolumeCandleIndex # NullIndex =>
              /\ selectedVolumeCandleIndex = ret.emitted
              /\ HighlightedBars = {arg.displayIdx}
              /\ HeaderCandle = arg.c

\* C5 witness: the leftmost bar of a chart of several candles was clicked and
\* the newest candle is selected
C5_Witness ==
    /\ op = "onVolumeBarClick" /\ arg.displayIdx = 0
    /\ Len(klines) >= 3
    /\ selectedVolumeCandleIndex = Len(klines) - 1
    /\ HeaderCandle.utc_open_time = 60 * Len(klines)

\* C6: getOriginalKlineIndex(i) = n - 1 - i for 0 <= i < n, and applying it
\* twice returns i.
C6_OriginalIndexIsInvolution ==
    op = "getOriginalKlineIndex" =>
        /\ ret.index = Len(klines) - 1 - arg.displayIdx
        /\ getOriginalKlineIndex(klines, ret.index) = arg.displayIdx

\* C6 witness: displayIndexToOriginalIndex(0, 5) = 4
C6_Witness ==
    /\ op = "getOriginalKlineIndex"
    /\ Len(klines) = 5 /\ arg.displayIdx = 0 /\ ret.index = 4

IsMinLow(m) ==
    /\ \E i \in 1..Len(klines) : klines[i].low_price = m
    /\ \A i \in 1..Len(klines) : m <= klines[i].low_price
IsMaxHigh(m) ==
    /\ \E i \in 1..Len(klines) : klines[i].high_price = m
    /\ \A i \in 1..Len(klines) : klines[i].high_price <= m

\* C7: klinesScale returns {min: 0, max: 1} for an empty sequence; otherwise
\* min is the smallest low_price and max the largest high_price, except that
\* max is min + 1 when that largest high is <= min; max - min is positive.
C7_ScaleIsLowHighOrWidened ==
    op = "klinesScale" =>
        /\ Len(klines) = 0 => ret = [min |-> 0, max |-> 1]
        /\ Len(klines) > 0 =>
              /\ IsMinLow(ret.min)
              /\ \A h \in CandlePrices :
                    IsMaxHigh(h) => ret.max = IF h <= ret.min THEN ret.min + 1 ELSE h
        /\ ret.max - ret.min > 0

\* C7 witness: a single candle with low = high = 5 gives {5, 6}
C7_Witness ==
    /\ op = "klinesScale" /\ Len(klines) = 1
    /\ klines[1].low_price = 5 /\ klines[1].high_price = 5
    /\ ret = [min |-> 5, max |-> 6]

\* C8: for a non-empty candle sequence and every candle of it, the wick height
\* is >= 0.5 percent and the body height is >= 1 percent.
C8_WickAndBodyFloors ==
    /\ (op = "candleWickStyle" /\ Len(klines) > 0)
          => (Has(ret, "height") /\ RLe(Rat(1, 2), ret.height))
    /\ (op = "candleBodyStyle" /\ Len(klines) > 0)
          => (Has(ret, "height") /\ RLe(RInt(1), ret.height))

\* C8 witness: the wick of a candle with high = low is at the floor
C8_Witness ==
    /\ op = "candleWickStyle"
    /\ arg.c.high_price = arg.c.low_price
    /\ ret.height = Rat(1, 2)

\* every candle has zero volume: usd_volume and coin_volume are 0 or missing
AllZeroVolume ==
    \A i \in 1..Len(klines) :
        /\ Has(klines[i], "usd_volume") => klines[i].usd_volume = 0
        /\ Has(klines[i], "coin_volume") => klines[i].coin_volume = 0

-----------------------------------------------------------------------------
(* The volume bars of the chart                                            *)

\* usd_volume and coin_volume may each be missing, zero or negative
UsdVolumes == {-1, 0, 2}
CoinVolumes == {-1, 0, 1, 3}
BarCandles ==
    {Flat} \cup {Flat @@ ("coin_volume" :> v) : v \in CoinVolumes}
           \cup {Flat @@ ("usd_volume" :> u) : u \in UsdVolumes}
           \cup {Flat @@ ("coin_volume" :> v) @@ ("usd_volume" :> u) : v \in CoinVolumes, u \in UsdVolumes}
BarKlines == {Stamp(s) : s \in SeqsUpTo(BarCandles, MaxKlines)}

InitVolume ==
    /\ klines \in BarKlines
    /\ selectedVolumeCandleIndex = NullIndex
    /\ NoBook
    /\ op = "none" /\ arg = Null /\ ret = Null
    /\ PagesIdle

NextVolume ==
    \/ CallKlinesVolumeMax
    \/ \E a \in CandleArgs : CallVolumeBarStyle(a[1], a[2])

SpecVolume == InitVolume /\ [][NextVolume]_vars

-----------------------------------------------------------------------------
(* The price axis and the columns of the chart                             *)

TickKlines == {Stamp(s) : s \in SeqsUpTo(PriceCandles, MaxKlines)}

InitTicks ==
    /\ klines \in TickKlines
    /\ selectedVolumeCandleIndex = NullIndex
    /\ NoBook
    /\ op = "none" /\ arg = Null /\ ret = Null
    /\ PagesIdle

\* :style="{ bottom: priceTickBottomPct(tick) + '%' }" for tick in klinesPriceTicks
CallPriceTickBottomPct(tick) ==
    /\ op' = "priceTickBottomPct" /\ arg' = [tick |-> tick]
    /\ ret' = [pct |-> priceTickBottomPct(klines, tick)]
    /\ UNCHANGED <<bookDepth, klines, selectedVolumeCandleIndex, pages>>

NextTicks ==
    \/ CallKlinesScale
    \/ CallKlinesPriceTicks
    \/ \E j \in 1..Len(klinesPriceTicks(klines)) :
          CallPriceTickBottomPct(klinesPriceTicks(klines)[j])

SpecTicks == InitTicks /\ [][NextTicks]_vars

\* the longest chart whose columns are laid out
MaxColumns == 70
ColumnKlines == {Stamp([i \in 1..n |-> Flat]) : n \in 1..MaxColumns}

InitColumns ==
    /\ klines \in ColumnKlines
    /\ selectedVolumeCandleIndex = NullIndex
    /\ NoBook
    /\ op = "none" /\ arg = Null /\ ret = Null
    /\ PagesIdle

NextColumns == \E a \in CandleArgs : CallCandleColStyle(a[1], a[2])

SpecColumns == InitColumns /\ [][NextColumns]_vars

-----------------------------------------------------------------------------
(* One render of a page: the order book and the chart side by side         *)

\* levels of positive price and quantity: notionals 1, 2, 3 and 6
WindowLevels == [price : {1, 2}, quantity : {1, 3}]
\* sides shorter than the window, and sides one level longer than it
WindowSides == SeqsUpTo(WindowLevels, 1) \cup {LongSide(f, t) : f, t \in WindowLevels}
WindowBooks == [bids : WindowSides, asks : WindowSides]

RenderCandles ==
    {[open_price |-> 4, high_price |-> 6, low_price |-> 4, close_price |-> 5, coin_volume |-> 1],
     [open_price |-> 5, high_price |-> 5, low_price |-> 5, close_price |-> 5, usd_volume |-> 2]}
RenderKlines == {Stamp(s) : s \in SeqsUpTo(RenderCandles, MaxKlines)}

InitRender ==
    /\ \/ bookDepth \in WindowBooks /\ klines = <<>>
       \/ bookDepth = Null /\ klines \in RenderKlines
    /\ selectedVolumeCandleIndex = NullIndex
    /\ op = "none" /\ arg = Null /\ ret = Null
    /\ PagesIdle

\* the computed property klinesForChart; this.klines is what k.slice().reverse()
\* leaves of it
CallKlinesForChart ==
    /\ op' = "klinesForChart" /\ arg' = Null
    /\ ret' = [list |-> klinesForChart(klines)]
    /\ klines' = SliceReverse(klines).original
    /\ UNCHANGED <<bookDepth, selectedVolumeCandleIndex, pages>>

NextRender ==
    \/ \E b \in WindowLevels : CallDepthPctBid(b)
    \/ \E a \in WindowLevels : CallDepthPctAsk(a)
    \/ \E i \in 0..(DepthWindow - 1) : CallBookDepthSpreadPct(i)
    \/ CallKlinesForChart
    \/ CallKlinesScale
    \/ \E a \in CandleArgs : CallCandleWickStyle(a[1], a[2])
    \/ \E a \in CandleArgs : CallCandleBodyStyle(a[1], a[2])
    \/ \E a \in CandleArgs : CallCandleColStyle(a[1], a[2])
    \/ CallKlinesVolumeMax
    \/ \E a \in CandleArgs : CallVolumeBarStyle(a[1], a[2])
    \/ CallKlinesPriceTicks
    \/ CallKlinesTimeLabels

SpecRender == InitRender /\ [][NextRender]_vars

-----------------------------------------------------------------------------
(* crawler-admin and crawler2-admin: the iteration detail modal            *)

MaxRequests == 3
IterationIds == {1, 2}

\* the payload of GET /api/admin/crawler/iterations/<id>
IterationDetail(id) == [id |-> id]
\* e.message || <the fixed text of the component>
IterationLoadError == "iteration load error"

InitIteration ==
    /\ bookDepth = Null /\ klines = <<>>
    /\ selectedVolumeCandleIndex = NullIndex
    /\ op = "none" /\ arg = Null /\ ret = Null
    /\ PagesIdle

\* the button of a row of the iterations table; the mask of the modal covers
\* the table while the modal is shown. requests is the log of the fetches.
ShowIteration(it) ==
    /\ ~crawlerAdmin.showIterationModal
    /\ Len(requests) < MaxRequests
    /\ crawlerAdmin' = [crawlerAdmin EXCEPT !.selectedIteration = Null,
                                            !.showIterationModal = TRUE,
                                            !.loadingIterationDetail = TRUE]
    /\ requests' = Append(requests, [it |-> it, state |-> "pending"])
    /\ op' = "showIteration" /\ arg' = [it |-> it] /\ ret' = Null
    /\ UNCHANGED <<bookDepth, klines, selectedVolumeCandleIndex, tokensView>>

\* .then(r.json()).then(data => self.selectedIteration = data).finally(..)
DeliverIterationDetail(i) ==
    /\ requests[i].state = "pending"
    /\ crawlerAdmin' = [crawlerAdmin EXCEPT !.selectedIteration = IterationDetail(requests[i].it),
                                            !.loadingIterationDetail = FALSE]
    /\ requests' = [requests EXCEPT ![i].state = "done"]
    /\ op' = "iterationDetailResponse" /\ arg' = [request |-> i] /\ ret' = Null
    /\ UNCHANGED <<bookDepth, klines, selectedVolumeCandleIndex, tokensView>>

\* .catch(e => self.error = ..).finally(..)
FailIterationDetail(i) ==
    /\ requests[i].state = "pending"
    /\ crawlerAdmin' = [crawlerAdmin EXCEPT !.error = IterationLoadError,
                                            !.loadingIterationDetail = FALSE]
    /\ requests' = [requests EXCEPT ![i].state = "failed"]
    /\ op' = "iterationDetailFailure" /\ arg' = [request |-> i] /\ ret' = Null
    /\ UNCHANGED <<bookDepth, klines, selectedVolumeCandleIndex, tokensView>>

\* both buttons of the modal, shown while it loads as well
CloseIterationModal ==
    /\ crawlerAdmin.showIterationModal
    /\ crawlerAdmin' = [crawlerAdmin EXCEPT !.showIterationModal = FALSE,
                                            !.selectedIteration = Null]
    /\ selectedVolumeCandleIndex' = NullIndex
    /\ op' = "closeIterationModal" /\ arg' = Null /\ ret' = Null
    /\ UNCHANGED <<bookDepth, klines, tokensView, requests>>

\* volume-bar-click of the klines-chart in the body of the modal, which is
\* rendered when the modal is shown, not loading, and has a detail
BarIndices == {0, 1}
OnKlinesVolumeBarClick(originalIdx) ==
    /\ crawlerAdmin.showIterationModal
    /\ ~crawlerAdmin.loadingIterationDetail /\ crawlerAdmin.selectedIteration # Null
    /\ selectedVolumeCandleIndex' = ToggleSelected(selectedVolumeCandleIndex, originalIdx)
    /\ op' = "onKlinesVolumeBarClick" /\ arg' = [originalIdx |-> originalIdx] /\ ret' = Null
    /\ UNCHANGED <<bookDepth, klines, crawlerAdmin, tokensView, requests>>

NextIteration ==
    \/ \E originalIdx \in BarIndices : OnKlinesVolumeBarClick(originalIdx)
    \/ \E it \in IterationIds : ShowIteration(it)
    \/ \E i \in 1..Len(requests) : DeliverIterationDetail(i)
    \/ \E i \in 1..Len(requests) : FailIterationDetail(i)
    \/ CloseIterationModal

SpecIteration == InitIteration /\ [][NextIteration]_vars

-----------------------------------------------------------------------------
(* Tokens: the form modal and the duplicate dialog                         *)

MaxTokens == 1
\* saveToken is not clicked once the log of fetches has this length
MaxSaves == 2
TokenSymbols == {"BTC", "eth"}
TokenSources == {"manual", "coinmarketcap"}
\* the rows of GET /api/admin/tokens: the id of a row is its position here
TokenLists ==
    {[i \in 1..Len(s) |-> [id |-> i, symbol |-> s[i][1], source |-> s[i][2]]] :
        s \in SeqsUpTo(TokenSymbols \X TokenSources, MaxTokens)}
\* what is typed into the symbol field
SymbolInputs == {" ", "btc ", "ETH"}

\* String.prototype.trim and toUpperCase on the strings that occur
Trim(str) == CASE str = " " -> "" [] str = "btc " -> "btc" [] str = "BTC " -> "BTC" [] OTHER -> str
ToUpperCase(str) ==
    CASE str = "btc" -> "BTC" [] str = "btc " -> "BTC " [] str = "eth" -> "ETH" [] OTHER -> str

EnterSymbolError == "enter the token symbol"
SaveError == "save error"
DuplicateMessage(symbol) == symbol
NoDuplicate == [show |-> FALSE, message |-> "", existingToken |-> NoToken]

\* the methods as functions of this: the view after the call
openAdd(v) == [v EXCEPT !.formToken = NoToken, !.formSymbol = "", !.showFormModal = TRUE]
closeForm(v) ==
    [v EXCEPT !.showFormModal = FALSE, !.formToken = NoToken, !.formSymbol = "",
              !.confirmDuplicate = NoDuplicate]
\* openEdit(null) assigns formToken and then throws on token.symbol
openEdit(v, token) ==
    IF token = NoToken THEN [view |-> [v EXCEPT !.formToken = NoToken], threw |-> TRUE]
    ELSE [view |-> [v EXCEPT !.formToken = token, !.formSymbol = token.symbol,
                             !.showFormModal = TRUE],
          threw |-> FALSE]

\* this.closeForm(); this.openEdit(this.confirmDuplicate.existingToken): the
\* argument is read after closeForm has replaced confirmDuplicate; a throw
\* ends the handler before its last two assignments
onConfirmDuplicate(v) ==
    IF v.pendingAction = "edit_existing" /\ v.confirmDuplicate.existingToken # NoToken
    THEN LET closed == closeForm(v)
             edited == openEdit(closed, closed.confirmDuplicate.existingToken)
         IN  IF edited.threw THEN edited.view
             ELSE [edited.view EXCEPT !.confirmDuplicate = NoDuplicate, !.pendingAction = "null"]
    ELSE [v EXCEPT !.confirmDuplicate = NoDuplicate, !.pendingAction = "null"]

\* self.tokens.find(t => t.symbol.toUpperCase() === symbol && t.source === 'manual')
FindExisting(tokens, symbol) ==
    LET hits == {i \in 1..Len(tokens) :
                    ToUpperCase(tokens[i].symbol) = symbol /\ tokens[i].source = "manual"}
    IN  IF hits = {} THEN NoToken ELSE tokens[SetMin(hits)]

InitTokens ==
    /\ bookDepth = Null /\ klines = <<>>
    /\ selectedVolumeCandleIndex = NullIndex
    /\ op = "none" /\ arg = Null /\ ret = Null
    /\ crawlerAdmin = CrawlerAdminData
    /\ tokensView \in {TokensData(list) : list \in TokenLists}
    /\ requests = <<>>

FormIdle ==
    /\ tokensView.showFormModal /\ ~tokensView.saving /\ ~tokensView.confirmDuplicate.show
TokensFrame == UNCHANGED <<bookDepth, klines, selectedVolumeCandleIndex, crawlerAdmin>>

\* the buttons of the page are under the mask of an open modal
OpenAdd ==
    /\ ~tokensView.showFormModal /\ ~tokensView.confirmDuplicate.show
    /\ tokensView' = openAdd(tokensView)
    /\ op' = "openAdd" /\ arg' = Null /\ ret' = Null
    /\ UNCHANGED requests /\ TokensFrame

\* the pencil button, rendered for the rows of source manual
OpenEdit(i) ==
    /\ ~tokensView.showFormModal /\ ~tokensView.confirmDuplicate.show
    /\ tokensView.tokens[i].source = "manual"
    /\ tokensView' = openEdit(tokensView, tokensView.tokens[i]).view
    /\ op' = "openEdit" /\ arg' = [token |-> tokensView.tokens[i]] /\ ret' = Null
    /\ UNCHANGED requests /\ TokensFrame

\* v-model="formSymbol"
TypeSymbol(text) ==
    /\ FormIdle
    /\ tokensView' = [tokensView EXCEPT !.formSymbol = text]
    /\ op' = "input" /\ arg' = [text |-> text] /\ ret' = Null
    /\ UNCHANGED requests /\ TokensFrame

CloseForm ==
    /\ FormIdle
    /\ tokensView' = closeForm(tokensView)
    /\ op' = "closeForm" /\ arg' = Null /\ ret' = Null
    /\ UNCHANGED requests /\ TokensFrame

\* doPost and doPut: saving, error = null and the fetch
SendSave(method, symbol, token) ==
    /\ tokensView' = [tokensView EXCEPT !.saving = TRUE, !.error = NoText]
    /\ requests' = Append(requests, [method |-> method, symbol |-> symbol,
                                     token |-> token, state |-> "pending"])

SaveToken ==
    LET symbol == ToUpperCase(Trim(tokensView.formSymbol))
        existing == FindExisting(tokensView.tokens, symbol)
    IN  /\ FormIdle
        /\ Len(requests) < MaxSaves
        /\ op' = "saveToken" /\ arg' = [formSymbol |-> tokensView.formSymbol]
        /\ TokensFrame
        /\ IF symbol = ""
           THEN /\ tokensView' = [tokensView EXCEPT !.error = EnterSymbolError]
                /\ ret' = [sent |-> "none"] /\ UNCHANGED requests
           ELSE IF tokensView.formToken # NoToken
           THEN IF tokensView.formToken.source # "manual"
                THEN /\ ret' = [sent |-> "none"] /\ UNCHANGED <<tokensView, requests>>
                ELSE /\ ret' = [sent |-> "PUT"]
                     /\ SendSave("PUT", symbol, tokensView.formToken)
           ELSE IF existing # NoToken
           THEN /\ tokensView' =
                       [tokensView EXCEPT !.confirmDuplicate =
                                              [show |-> TRUE, message |-> DuplicateMessage(symbol),
                                               existingToken |-> existing],
                                          !.pendingAction = "edit_existing"]
                /\ ret' = [sent |-> "none"] /\ UNCHANGED requests
           ELSE /\ ret' = [sent |-> "POST"]
                /\ SendSave("POST", symbol, NoToken)

\* @confirm of the duplicate dialog
OnConfirmDuplicate ==
    /\ tokensView.confirmDuplicate.show
    /\ tokensView' = onConfirmDuplicate(tokensView)
    /\ op' = "onConfirmDuplicate"
    /\ arg' = [existingToken |-> tokensView.confirmDuplicate.existingToken]
    /\ ret' = Null
    /\ UNCHANGED requests /\ TokensFrame

\* @cancel of the duplicate dialog
OnCancelDuplicate ==
    /\ tokensView.confirmDuplicate.show
    /\ tokensView' = [tokensView EXCEPT !.confirmDuplicate = NoDuplicate, !.pendingAction = "null"]
    /\ op' = "onCancelDuplicate" /\ arg' = Null /\ ret' = Null
    /\ UNCHANGED requests /\ TokensFrame

IsSave(i) == requests[i].method \in {"POST", "PUT"} /\ requests[i].state = "pending"

\* .then: closeForm(), loadTokens() (loading, error = null, the GET); .finally
SaveSucceeded(i) ==
    /\ IsSave(i)
    /\ tokensView' = [closeForm(tokensView) EXCEPT !.loading = TRUE, !.error = NoText,
                                                  !.saving = FALSE]
    /\ requests' = Append([requests EXCEPT ![i].state = "done"],
                          [method |-> "GET", symbol |-> "", token |-> NoToken,
                           state |-> "pending"])
    /\ op' = "saveResponse" /\ arg' = [request |-> i] /\ ret' = Null
    /\ TokensFrame

\* .catch: error = e.message || ..; .finally
SaveFailed(i) ==
    /\ IsSave(i)
    /\ tokensView' = [tokensView EXCEPT !.error = SaveError, !.saving = FALSE]
    /\ requests' = [requests EXCEPT ![i].state = "failed"]
    /\ op' = "saveFailure" /\ arg' = [request |-> i] /\ ret' = Null
    /\ TokensFrame

\* loadTokens .then: tokens = data.tokens || []; .finally
TokensLoaded(i, list) ==
    /\ requests[i].method = "GET" /\ requests[i].state = "pending"
    /\ tokensView' = [tokensView EXCEPT !.tokens = list, !.loading = FALSE]
    /\ requests' = [requests EXCEPT ![i].state = "done"]
    /\ op' = "tokensResponse" /\ arg' = [request |-> i] /\ ret' = Null
    /\ TokensFrame

NextTokens ==
    \/ OpenAdd
    \/ \E i \in 1..Len(tokensView.tokens) : OpenEdit(i)
    \/ \E text \in SymbolInputs : TypeSymbol(text)
    \/ CloseForm
    \/ SaveToken
    \/ OnConfirmDuplicate
    \/ OnCancelDuplicate
    \/ \E i \in 1..Len(requests) : SaveSucceeded(i)
    \/ \E i \in 1..Len(requests) : SaveFailed(i)
    \/ \E i \in 1..Len(requests), list \in TokenLists : TokensLoaded(i, list)

SpecTokens == InitTokens /\ [][NextTokens]_vars

-----------------------------------------------------------------------------
(* Tokens: the writes. saveToken with the form open for a token of any     *)
(* source, and toggleActive called with any row of the list                *)

ToggleError == "toggle error"

\* !token.is_active
NotActive(token) == ~(Has(token, "is_active") /\ token.is_active)

\* mutant of toggleActive: the source of the token is not looked at
toggleActiveAnySource(v, token) ==
    [view |-> [v EXCEPT !.togglingId = token.id],
     sent |-> <<[method |-> "PATCH", symbol |-> "", token |-> token, state |-> "pending",
                 is_active |-> NotActive(token)]>>]

\* toggleActive up to its fetch; v is this
toggleActive(v, token) ==
    IF token.source # "manual" THEN [view |-> v, sent |-> <<>>]
    ELSE [view |-> [v EXCEPT !.togglingId = token.id],
          sent |-> <<[method |-> "PATCH", symbol |-> "", token |-> token, state |-> "pending",
                      is_active |-> NotActive(token)]>>]

\* tokens.splice(i, 1, updated) at the row of the same id, if there is one
SpliceUpdated(tokens, updated) ==
    [k \in 1..Len(tokens) |->
        IF k = SetMin({j \in 1..Len(tokens) : tokens[j].id = updated.id} \cup {Len(tokens) + 1})
        THEN updated ELSE tokens[k]]

ToggleActive(i) ==
    /\ i \in 1..Len(tokensView.tokens)
    /\ Len(requests) < MaxSaves
    /\ LET r == toggleActive(tokensView, tokensView.tokens[i])
       IN  /\ tokensView' = r.view /\ requests' = requests \o r.sent
           /\ ret' = [sent |-> IF r.sent = <<>> THEN "none" ELSE "PATCH"]
    /\ op' = "toggleActive" /\ arg' = [token |-> tokensView.tokens[i]]
    /\ TokensFrame

IsPatch(i) == requests[i].method = "PATCH" /\ requests[i].state = "pending"

\* .then(updated => splice); .finally(togglingId = null)
PatchSucceeded(i) ==
    /\ IsPatch(i)
    /\ LET updated == [is_active |-> requests[i].is_active] @@ requests[i].token
       IN  tokensView' = [tokensView EXCEPT !.tokens = SpliceUpdated(@, updated),
                                            !.togglingId = NullIndex]
    /\ requests' = [requests EXCEPT ![i].state = "done"]
    /\ op' = "patchResponse" /\ arg' = [request |-> i] /\ ret' = Null
    /\ TokensFrame

\* .catch(error = ..); .finally(togglingId = null)
PatchFailed(i) ==
    /\ IsPatch(i)
    /\ tokensView' = [tokensView EXCEPT !.error = ToggleError, !.togglingId = NullIndex]
    /\ requests' = [requests EXCEPT ![i].state = "failed"]
    /\ op' = "patchFailure" /\ arg' = [request |-> i] /\ ret' = Null
    /\ TokensFrame

\* a list with a manual and an imported token, and the form open for adding
\* or for either of them (openEdit called with the row)
WriteTokenLists ==
    {<<[id |-> 1, symbol |-> "BTC", source |-> "manual", is_active |-> a],
       [id |-> 2, symbol |-> "eth", source |-> "coinmarketcap", is_active |-> b]>> :
        a \in BOOLEAN, b \in BOOLEAN}

InitTokenWrites ==
    /\ bookDepth = Null /\ klines = <<>>
    /\ selectedVolumeCandleIndex = NullIndex
    /\ op = "none" /\ arg = Null /\ ret = Null
    /\ crawlerAdmin = CrawlerAdminData
    /\ \E list \in WriteTokenLists :
          tokensView \in {openAdd(TokensData(list))}
                           \cup {openEdit(TokensData(list), list[i]).view : i \in 1..Len(list)}
    /\ requests = <<>>

NextTokenWrites ==
    \/ \E text \in SymbolInputs \cup {""} : TypeSymbol(text)
    \/ SaveToken
    \/ OnCancelDuplicate
    \/ \E i \in 1..2 : ToggleActive(i)
    \/ \E i \in 1..Len(requests) : PatchSucceeded(i)
    \/ \E i \in 1..Len(requests) : PatchFailed(i)
    \/ \E i \in 1..Len(requests) : SaveSucceeded(i)
    \/ \E i \in 1..Len(requests) : SaveFailed(i)
    \/ \E i \in 1..Len(requests), list \in TokenLists : TokensLoaded(i, list)

SpecTokenWrites == InitTokenWrites /\ [][NextTokenWrites]_vars

-----------------------------------------------------------------------------
(* crawler-admin and crawler2-admin: the iterations table                  *)

iterationsPageSize == 50

\* String.prototype.toLowerCase and indexOf(q) !== -1 on the strings that occur
ToLowerCase(str) ==
    CASE str = "BTC" -> "btc" [] str = "Bt" -> "bt" [] str = "ETHUSDT" -> "ethusdt" [] OTHER -> str
Includes(str, q) ==
    CASE q = "" -> TRUE
      [] q = "bt" -> str \in {"btc", "bt"}
      [] q = "eth" -> str \in {"eth", "ethusdt"}
      [] OTHER -> str = q

\* it.token || '' and it.symbol || ''
TokenOf(it) == IF Has(it, "token") THEN it.token ELSE ""
SymbolOf(it) == IF Has(it, "symbol") THEN it.symbol ELSE ""

\* the three filters of crawler-admin, applied in turn; v is this
filteredJobIterations(v) ==
    LET status == Trim(v.statusFilter)
        byStatus == IF status # "" THEN SelectSeq(v.jobIterations, LAMBDA it : it.status = status)
                    ELSE v.jobIterations
        shown == IF v.hideIgnoreRecords THEN SelectSeq(byStatus, LAMBDA it : it.status # "ignore")
                 ELSE byStatus
        q == ToLowerCase(Trim(v.tokenSearchQuery))
    IN  IF q # "" THEN SelectSeq(shown, LAMBDA it : Includes(ToLowerCase(TokenOf(it)), q))
        ELSE shown

\* crawler2-admin: the query is looked for in the token and in the symbol
crawler2FilteredJobIterations(v) ==
    LET status == Trim(v.statusFilter)
        byStatus == IF status # "" THEN SelectSeq(v.jobIterations, LAMBDA it : it.status = status)
                    ELSE v.jobIterations
        shown == IF v.hideIgnoreRecords THEN SelectSeq(byStatus, LAMBDA it : it.status # "ignore")
                 ELSE byStatus
        q == ToLowerCase(Trim(v.tokenSearchQuery))
    IN  IF q # ""
        THEN SelectSeq(shown, LAMBDA it : \/ Includes(ToLowerCase(TokenOf(it)), q)
                                          \/ Includes(ToLowerCase(SymbolOf(it)), q))
        ELSE shown

\* Math.max(1, Math.ceil(filtered.length / iterationsPageSize))
iterationsTotalPages(filtered) ==
    LET count == (Len(filtered) + iterationsPageSize - 1) \div iterationsPageSize
    IN  IF count > 1 THEN count ELSE 1

\* mutant of paginatedJobIterations: the first page starts after one page
paginatedJobIterationsFromNext(filtered, page) ==
    LET start == page * iterationsPageSize
        end == IF start + iterationsPageSize < Len(filtered) THEN start + iterationsPageSize
               ELSE Len(filtered)
    IN  SubSeq(filtered, start + 1, end)

\* list.slice(start, start + iterationsPageSize), for start >= 0
paginatedJobIterations(filtered, page) ==
    LET start == (page - 1) * iterationsPageSize
        end == IF start + iterationsPageSize < Len(filtered) THEN start + iterationsPageSize
               ELSE Len(filtered)
    IN  SubSeq(filtered, start + 1, end)

\* the rows of a response: ids ascending, statuses and tokens mixed, the token
\* or the symbol of some rows missing
MaxRows == 101
IterationRow(job, i) ==
    [id |-> i, job |-> job,
     status |-> CASE i % 3 = 0 -> "success" [] i % 3 = 1 -> "error" [] OTHER -> "ignore"]
    @@ (IF i % 4 = 3 THEN <<>> ELSE [token |-> IF i % 2 = 0 THEN "BTC" ELSE "eth"])
    @@ (IF i % 5 = 0 THEN [symbol |-> "ETHUSDT"] ELSE <<>>)
IterationsOf(job, n) == [i \in 1..n |-> IterationRow(job, i)]

StatusFilters == {"", "success", "ignore"}
TokenQueries == {"", " ", "Bt", "eth"}

\* the panel of the selected job (v-if="selectedJob"; in crawler2-admin inside
\* the v-else of the jobs spinner)
PanelShown == crawlerAdmin.selectedJob # Null /\ ~crawlerAdmin.loading

\* the filters and the pager of the job panel; each filter sets the page to 1
SetStatusFilter(status) ==
    /\ PanelShown
    /\ crawlerAdmin' = [crawlerAdmin EXCEPT !.statusFilter = status, !.iterationsPage = 1]
    /\ op' = "statusFilter" /\ arg' = [value |-> status] /\ ret' = Null
    /\ UNCHANGED <<bookDepth, klines, selectedVolumeCandleIndex, tokensView, requests>>

SetTokenSearchQuery(q) ==
    /\ PanelShown
    /\ crawlerAdmin' = [crawlerAdmin EXCEPT !.tokenSearchQuery = q, !.iterationsPage = 1]
    /\ op' = "tokenSearchQuery" /\ arg' = [value |-> q] /\ ret' = Null
    /\ UNCHANGED <<bookDepth, klines, selectedVolumeCandleIndex, tokensView, requests>>

SetHideIgnoreRecords(hide) ==
    /\ PanelShown
    /\ crawlerAdmin' = [crawlerAdmin EXCEPT !.hideIgnoreRecords = hide, !.iterationsPage = 1]
    /\ op' = "hideIgnoreRecords" /\ arg' = [checked |-> hide] /\ ret' = Null
    /\ UNCHANGED <<bookDepth, klines, selectedVolumeCandleIndex, tokensView, requests>>

ResetIterationFilters ==
    /\ PanelShown
    /\ crawlerAdmin' = [crawlerAdmin EXCEPT !.statusFilter = "", !.tokenSearchQuery = "",
                                            !.hideIgnoreRecords = FALSE, !.iterationsPage = 1]
    /\ op' = "resetIterationFilters" /\ arg' = Null /\ ret' = Null
    /\ UNCHANGED <<bookDepth, klines, selectedVolumeCandleIndex, tokensView, requests>>

\* the pager is rendered when there is more than one page and no load is
\* running; the link of a disabled item takes no click
PagerShown(filtered) ==
    /\ PanelShown /\ ~crawlerAdmin.loadingIterations
    /\ iterationsTotalPages(filtered) > 1

\* @click.prevent="iterationsPage--"
PrevPage(filtered) ==
    /\ PagerShown(filtered)
    /\ ~(crawlerAdmin.iterationsPage <= 1)
    /\ crawlerAdmin' = [crawlerAdmin EXCEPT !.iterationsPage = @ - 1]
    /\ op' = "prevPage" /\ arg' = Null /\ ret' = Null
    /\ UNCHANGED <<bookDepth, klines, selectedVolumeCandleIndex, tokensView, requests>>

\* @click.prevent="iterationsPage++"
NextPage(filtered) ==
    /\ PagerShown(filtered)
    /\ ~(crawlerAdmin.iterationsPage >= iterationsTotalPages(filtered))
    /\ crawlerAdmin' = [crawlerAdmin EXCEPT !.iterationsPage = @ + 1]
    /\ op' = "nextPage" /\ arg' = Null /\ ret' = Null
    /\ UNCHANGED <<bookDepth, klines, selectedVolumeCandleIndex, tokensView, requests>>

\* a job panel with its rows loaded
PageRowCounts == {0, 1, iterationsPageSize, iterationsPageSize + 1, MaxRows}
InitPages ==
    /\ bookDepth = Null /\ klines = <<>>
    /\ selectedVolumeCandleIndex = NullIndex
    /\ op = "none" /\ arg = Null /\ ret = Null
    /\ \E n \in PageRowCounts :
          crawlerAdmin = [CrawlerAdminData EXCEPT !.jobs = <<[id |-> 1]>>,
                                                 !.selectedJob = [id |-> 1],
                                                 !.jobIterations = IterationsOf(1, n)]
    /\ tokensView = TokensData(<<>>)
    /\ requests = <<>>

NextPages ==
    \/ \E status \in StatusFilters : SetStatusFilter(status)
    \/ \E q \in TokenQueries : SetTokenSearchQuery(q)
    \/ \E hide \in BOOLEAN : SetHideIgnoreRecords(hide)
    \/ ResetIterationFilters
    \/ PrevPage(filteredJobIterations(crawlerAdmin))
    \/ NextPage(filteredJobIterations(crawlerAdmin))
    \/ PrevPage(crawler2FilteredJobIterations(crawlerAdmin))
    \/ NextPage(crawler2FilteredJobIterations(crawlerAdmin))

SpecPages == InitPages /\ [][NextPages]_vars

-----------------------------------------------------------------------------
(* crawler-admin and crawler2-admin: selecting a job and loading its rows  *)
(* requests holds the fetches in flight, in the order they were sent; a    *)
(* response is delivered for any of them. jobStats and iterationsTotal     *)
(* take no part in the table and are left out.                             *)

MaxInFlight == 2
JobIds == {1, 2}
Job(id) == [id |-> id]
ResponseRows == {0, 1, iterationsPageSize + 1}
IterationsLoadError == "iterations load error"
JobsLoadError == "jobs load error"

WithoutRequest(i) == [k \in 1..(Len(requests) - 1) |-> IF k < i THEN requests[k] ELSE requests[k + 1]]

\* loadAllIterations up to its fetch; v is this
loadAllIterations(v) ==
    IF v.selectedJob = Null THEN [view |-> v, sent |-> <<>>]
    ELSE [view |-> [v EXCEPT !.loadingIterations = TRUE],
          sent |-> <<[kind |-> "iterations", job |-> v.selectedJob.id]>>]

selectJob(v, job) ==
    loadAllIterations([v EXCEPT !.selectedJob = job, !.jobIterations = <<>>, !.iterationsPage = 1])

closeJobPanel(v) == [v EXCEPT !.selectedJob = Null, !.jobIterations = <<>>]

\* the then-callback of loadJobs in crawler2-admin; FirstOr(list) is jobs[0] || null
FirstOr(list) == IF Len(list) > 0 THEN list[1] ELSE Null
crawler2JobsLoaded(v, list) ==
    LET w == [v EXCEPT !.jobs = list]
    IN  IF Len(list) > 0 /\ v.selectedJob = Null THEN selectJob(w, list[1])
        ELSE IF v.selectedJob # Null /\ ~(\E k \in 1..Len(list) : list[k].id = v.selectedJob.id)
        THEN loadAllIterations([w EXCEPT !.selectedJob = FirstOr(list)])
        ELSE [view |-> w, sent |-> <<>>]

JobsFrame == UNCHANGED <<bookDepth, klines, selectedVolumeCandleIndex, tokensView>>

\* a click on a row of the jobs table (crawler-admin) or on a tab (crawler2-admin)
SelectJob(k) ==
    /\ ~crawlerAdmin.loading /\ k \in 1..Len(crawlerAdmin.jobs)
    /\ Len(requests) < MaxInFlight
    /\ LET r == selectJob(crawlerAdmin, crawlerAdmin.jobs[k])
       IN  crawlerAdmin' = r.view /\ requests' = requests \o r.sent
    /\ op' = "selectJob" /\ arg' = crawlerAdmin.jobs[k] /\ ret' = Null
    /\ JobsFrame

CloseJobPanel ==
    /\ PanelShown
    /\ crawlerAdmin' = closeJobPanel(crawlerAdmin)
    /\ op' = "closeJobPanel" /\ arg' = Null /\ ret' = Null
    /\ UNCHANGED requests /\ JobsFrame

\* then and finally of the fetch of loadAllIterations; n rows came
IterationsLoaded(i, n) ==
    /\ i \in 1..Len(requests) /\ requests[i].kind = "iterations"
    /\ crawlerAdmin' = [crawlerAdmin EXCEPT !.jobIterations = IterationsOf(requests[i].job, n),
                                            !.loadingIterations = FALSE]
    /\ requests' = WithoutRequest(i)
    /\ op' = "iterationsLoaded" /\ arg' = requests[i] /\ ret' = Null
    /\ JobsFrame

\* catch and finally
IterationsFailed(i) ==
    /\ i \in 1..Len(requests) /\ requests[i].kind = "iterations"
    /\ crawlerAdmin' = [crawlerAdmin EXCEPT !.error = IterationsLoadError,
                                            !.loadingIterations = FALSE]
    /\ requests' = WithoutRequest(i)
    /\ op' = "iterationsFailed" /\ arg' = requests[i] /\ ret' = Null
    /\ JobsFrame

\* crawler-admin with its jobs listed
InitJobs ==
    /\ bookDepth = Null /\ klines = <<>>
    /\ selectedVolumeCandleIndex = NullIndex
    /\ op = "none" /\ arg = Null /\ ret = Null
    /\ crawlerAdmin = [CrawlerAdminData EXCEPT !.jobs = <<Job(1), Job(2)>>]
    /\ tokensView = TokensData(<<>>)
    /\ requests = <<>>

NextJobs ==
    \/ \E k \in 1..Cardinality(JobIds) : SelectJob(k)
    \/ CloseJobPanel
    \/ \E i \in 1..MaxInFlight, n \in ResponseRows : IterationsLoaded(i, n)
    \/ \E i \in 1..MaxInFlight : IterationsFailed(i)
    \/ \E status \in {"", "success"} : SetStatusFilter(status)
    \/ \E q \in {"", "Bt"} : SetTokenSearchQuery(q)
    \/ \E hide \in BOOLEAN : SetHideIgnoreRecords(hide)
    \/ ResetIterationFilters
    \/ PrevPage(filteredJobIterations(crawlerAdmin))
    \/ NextPage(filteredJobIterations(crawlerAdmin))

SpecJobs == InitJobs /\ [][NextJobs]_vars

\* crawler2-admin: the reload button and the responses of loadJobs
JobLists == {<<>>, <<Job(1)>>, <<Job(2)>>, <<Job(1), Job(2)>>}

LoadJobs ==
    /\ Len(requests) < MaxInFlight
    /\ crawlerAdmin' = [crawlerAdmin EXCEPT !.loading = TRUE, !.error = NoText]
    /\ requests' = Append(requests, [kind |-> "jobs", job |-> 0])
    /\ op' = "loadJobs" /\ arg' = Null /\ ret' = Null
    /\ JobsFrame

JobsLoaded(i, list) ==
    /\ i \in 1..Len(requests) /\ requests[i].kind = "jobs"
    /\ LET r == crawler2JobsLoaded(crawlerAdmin, list)
       IN  /\ crawlerAdmin' = [r.view EXCEPT !.loading = FALSE]
           /\ requests' = WithoutRequest(i) \o r.sent
    /\ op' = "jobsLoaded" /\ arg' = [jobs |-> list] /\ ret' = Null
    /\ JobsFrame

JobsFailed(i) ==
    /\ i \in 1..Len(requests) /\ requests[i].kind = "jobs"
    /\ crawlerAdmin' = [crawlerAdmin EXCEPT !.error = JobsLoadError, !.loading = FALSE]
    /\ requests' = WithoutRequest(i)
    /\ op' = "jobsFailed" /\ arg' = Null /\ ret' = Null
    /\ JobsFrame

\* mounted() has called loadJobs
InitJobs2 ==
    /\ bookDepth = Null /\ klines = <<>>
    /\ selectedVolumeCandleIndex = NullIndex
    /\ op = "none" /\ arg = Null /\ ret = Null
    /\ crawlerAdmin = [CrawlerAdminData EXCEPT !.loading = TRUE]
    /\ tokensView = TokensData(<<>>)
    /\ requests = <<[kind |-> "jobs", job |-> 0]>>

NextJobs2 ==
    \/ LoadJobs
    \/ \E i \in 1..MaxInFlight, list \in JobLists : JobsLoaded(i, list)
    \/ \E i \in 1..MaxInFlight : JobsFailed(i)
    \/ \E k \in 1..Cardinality(JobIds) : SelectJob(k)
    \/ \E i \in 1..MaxInFlight, n \in ResponseRows : IterationsLoaded(i, n)
    \/ \E i \in 1..MaxInFlight : IterationsFailed(i)
    \/ \E status \in {"", "success"} : SetStatusFilter(status)
    \/ \E q \in {"", "Bt"} : SetTokenSearchQuery(q)
    \/ \E hide \in BOOLEAN : SetHideIgnoreRecords(hide)
    \/ ResetIterationFilters
    \/ PrevPage(crawler2FilteredJobIterations(crawlerAdmin))
    \/ NextPage(crawler2FilteredJobIterations(crawlerAdmin))

SpecJobs2 == InitJobs2 /\ [][NextJobs2]_vars

-----------------------------------------------------------------------------
(* Further properties of the book-depth component                          *)

\* the called side has no level among its first 20 whose notional is positive
\* (in particular: the book is null, the side is missing or it has no level)
NoPositiveInWindow ==
    \A i \in 1..Len(CalledSide) : i <= DepthWindow => Notional(CalledSide[i]) <= 0

\* C11: depthPctBid and depthPctAsk return 0 for any level argument whenever
\* the side's visible window is empty (book null, side missing, no level) or
\* the side's largest notional is <= 0.
C11_EmptyOrNonPositiveSideGivesZero ==
    (IsDepthCall /\ NoPositiveInWindow) => ret = RInt(0)

\* C11 witness: a level of positive notional was given width 0 on a book that
\* has asks only, and on a side whose largest notional is negative
C11_Witness ==
    /\ op = "depthPctBid" /\ Notional(arg.level) > 0 /\ ret = RInt(0)
    /\ bookDepth # Null
    /\ \/ ~Has(bookDepth, "bids")
       \/ (Len(CalledSide) > 0 /\ \A i \in 1..Len(CalledSide) : Notional(CalledSide[i]) < 0)

\* h hundredths is a nearest hundredth to the quotient n / d
IsNearestHundredth(h, n, d) == 2 * Abs(h * d - 100 * n) <= Abs(d)

\* C12: for a row with 0 < bid < ask the component's bookDepthSpreadPct is
\* (ask - bid) / mid x 100 with mid = (bid + ask) / 2, to two decimals.
C12_SpreadIsNonDoubledQuotient ==
    (IsSpreadCall /\ RowOnBothSides /\ 0 < RowBid /\ RowBid < RowAsk) =>
        /\ Has(ret, "hundredths")
        /\ IsNearestHundredth(ret.hundredths, 2 * 100 * (RowAsk - RowBid), RowBid + RowAsk)

\* C12 witness: bid 100, ask 101 gives 100 / 100.5 = 0.995.., shown as 1.00%
C12_Witness ==
    /\ IsSpreadCall /\ bookDepth = ExampleBook /\ arg.rowIndex = 0
    /\ ret = [hundredths |-> 100]

\* C13: the inline copy of admin.js returns the sentinel exactly when the
\* component's copy does, and otherwise 2 x (ask - bid) / mid x 100, twice
\* the component's unrounded value.
C13_InlineCopyIsTwice ==
    op = "adminBookDepthSpreadPct" =>
        LET own == bookDepthSpreadPct(bookDepth, arg.rowIndex)
        IN  /\ ret = Dash <=> own = Dash
            /\ ret = InfinityPct <=> own = InfinityPct
            /\ Has(ret, "hundredths") =>
                  /\ IsNearestHundredth(ret.hundredths,
                                        2 * 2 * 100 * (RowAsk - RowBid), RowBid + RowAsk)
                  /\ IsNearestHundredth(own.hundredths,
                                        2 * 100 * (RowAsk - RowBid), RowBid + RowAsk)

\* C13 witness: bid 1, ask 2 gives 133.33% inline where the component gives 66.67%
C13_Witness ==
    /\ op = "adminBookDepthSpreadPct" /\ RowOnBothSides
    /\ RowBid = 1 /\ RowAsk = 2
    /\ ret = [hundredths |-> 13333]
    /\ bookDepthSpreadPct(bookDepth, arg.rowIndex) = [hundredths |-> 6667]

\* the book with its asks replaced (t = Null: removed), its bids as they are
WithAsks(bd, t) ==
    IF t = Null THEN (IF Has(bd, "bids") THEN [bids |-> bd.bids] ELSE [none |-> TRUE])
    ELSE IF Has(bd, "bids") THEN [bids |-> bd.bids, asks |-> t.levels] ELSE [asks |-> t.levels]
WithBids(bd, t) ==
    IF t = Null THEN (IF Has(bd, "asks") THEN [asks |-> bd.asks] ELSE [none |-> TRUE])
    ELSE IF Has(bd, "asks") THEN [bids |-> t.levels, asks |-> bd.asks] ELSE [bids |-> t.levels]
\* the other sides the called side is compared under
AlternativeSides ==
    {Null} \cup {[levels |-> s] : s \in SeqsUpTo(Levels, 1) \cup {LongSide(f, f) : f \in Levels}}

\* C15: each side's bar widths depend on that side only: depthPctBid returns
\* the same value under any other asks, and depthPctAsk under any other bids.
C15_SidesAreIndependent ==
    /\ (op = "depthPctBid" /\ bookDepth # Null) =>
          \A t \in AlternativeSides : depthPctBid(WithAsks(bookDepth, t), arg.level) = ret
    /\ (op = "depthPctAsk" /\ bookDepth # Null) =>
          \A t \in AlternativeSides : depthPctAsk(WithBids(bookDepth, t), arg.level) = ret

\* C15 witness: a bid got width 100 while the asks hold a larger notional
C15_Witness ==
    /\ op = "depthPctBid" /\ bookDepth # Null
    /\ Has(bookDepth, "bids") /\ Has(bookDepth, "asks") /\ Len(bookDepth.asks) > 0
    /\ Notional(bookDepth.asks[1]) > Notional(arg.level)
    /\ ret = RInt(100)

-----------------------------------------------------------------------------
(* Further properties of the klines-chart component                        *)

IsCandleCall ==
    op \in {"klinesScale", "candleWickStyle", "candleBodyStyle", "candleColStyle",
            "volumeBarStyle", "klinesPriceTicks", "klinesTimeLabels", "klinesVolumeMax"}

\* C14: on an empty candle sequence klinesScale gives {0, 1}, the wick, body,
\* column and volume-bar styles are empty, the price ticks and the time
\* labels are empty lists and the volume maximum is 0.
C14_EmptyKlinesGiveDefaults ==
    (IsCandleCall /\ Len(klines) = 0) =>
        /\ op = "klinesScale" => ret = [min |-> 0, max |-> 1]
        /\ op \in {"candleWickStyle", "candleBodyStyle", "candleColStyle", "volumeBarStyle"}
              => ret = NoStyle
        /\ op = "klinesPriceTicks" => ret = [ticks |-> <<>>]
        /\ op = "klinesTimeLabels" => ret = [labels |-> <<>>]
        /\ op = "klinesVolumeMax" => ret = [max |-> 0]

\* C14 witness: the price ticks were asked for with no candle and are empty
C14_Witness ==
    /\ op = "klinesPriceTicks" /\ Len(klines) = 0 /\ ret = [ticks |-> <<>>]

-----------------------------------------------------------------------------
(* Properties of one render                                                *)

\* the first 20 levels of a side, and the book cut to them
FirstLevels(side) == [i \in 1..(IF Len(side) < DepthWindow THEN Len(side) ELSE DepthWindow) |-> side[i]]
CutBook(bd) ==
    IF bd = Null THEN Null
    ELSE [f \in DOMAIN bd |-> IF f \in {"bids", "asks"} THEN FirstLevels(bd[f]) ELSE bd[f]]

\* C16: only the first 20 levels of a side are considered: every bar width and
\* every row spread is the one of the book cut to its first 20 levels, the
\* rows asked for are 0..19, and shorter sides give a result as well.
C16_OnlyFirstTwentyLevels ==
    /\ op = "depthPctBid" => ret = depthPctBid(CutBook(bookDepth), arg.level)
    /\ op = "depthPctAsk" => ret = depthPctAsk(CutBook(bookDepth), arg.level)
    /\ IsSpreadCall =>
          /\ arg.rowIndex \in 0..(DepthWindow - 1)
          /\ ret = bookDepthSpreadPct(CutBook(bookDepth), arg.rowIndex)
          /\ (RowOnBothSides /\ arg.rowIndex < Len(bookDepth.bids)
                /\ arg.rowIndex < Len(bookDepth.asks)) => Has(ret, "hundredths") \/ ret = Dash

\* C16 witness: the first ask has width 100 although the 21st ask is larger,
\* on a book whose bids are shorter than the window
C16_Witness ==
    /\ op = "depthPctAsk" /\ bookDepth # Null
    /\ Len(bookDepth.asks) > DepthWindow /\ Len(bookDepth.bids) < DepthWindow
    /\ arg.level = bookDepth.asks[1]
    /\ Notional(bookDepth.asks[DepthWindow + 1]) > Notional(arg.level)
    /\ ret = RInt(100)

\* C17: no computation changes the klines array or the bids and asks lists,
\* and a call repeated with the same argument returns the same result.
C17_InputsAreNotModified ==
    [][/\ klines' = klines
       /\ bookDepth' = bookDepth
       /\ (op' = op /\ arg' = arg) => ret' = ret]_vars

\* C17 witness: the reversed display sequence was built, newest first, and
\* klines is still oldest first
C17_Witness ==
    /\ op = "klinesForChart" /\ Len(klines) = 2
    /\ ret.list[1].utc_open_time > ret.list[2].utc_open_time
    /\ klines[1].utc_open_time < klines[2].utc_open_time

-----------------------------------------------------------------------------
(* Further properties of the time axis                                     *)

\* the indices 0, step, 2 * step, .. below L
SteppedIndices(L, step) == {i \in 0..(L - 1) : i % step = 0}
\* those, and L - 1 if it is more than step x 0.5 beyond the last of them
ExpectedLabelIndices(L, step) ==
    SteppedIndices(L, step) \cup
        (IF 2 * (L - 1 - SetMax(SteppedIndices(L, step))) > step THEN {L - 1} ELSE {})

\* C20: for a sequence of length L > 1 and step = max(1, floor(L / 6)) the
\* labels are at exactly the indices 0, step, 2 * step, .. below L, plus L - 1
\* iff it is more than step x 0.5 beyond the last of them; the indices are
\* strictly increasing, leftPct = index / (L - 1) x 100 is in [0, 100]; one
\* candle gives one label at 0 percent.
C20_LabelIndicesAndPositions ==
    op = "klinesTimeLabels" =>
        LET L == Len(klines)
            labels == ret.labels
            step == IF L \div 6 > 1 THEN L \div 6 ELSE 1
        IN  /\ L > 1 =>
                 /\ {labels[j].index : j \in 1..Len(labels)} = ExpectedLabelIndices(L, step)
                 /\ \A j \in 1..(Len(labels) - 1) : labels[j].index < labels[j + 1].index
                 /\ \A j \in 1..Len(labels) :
                       /\ labels[j].leftPct = Rat(labels[j].index * 100, L - 1)
                       /\ RLe(RInt(0), labels[j].leftPct) /\ RLe(labels[j].leftPct, RInt(100))
            /\ L = 1 =>
                 /\ Len(labels) = 1
                 /\ labels[1].index = 0 /\ labels[1].leftPct = RInt(0)

\* C20 witness: 18 candles, step 3: labels at 0, 3, .., 15 and the appended 17
C20_Witness ==
    /\ op = "klinesTimeLabels" /\ Len(klines) = 18
    /\ Len(ret.labels) = 7
    /\ ret.labels[6].index = 15 /\ ret.labels[7].index = 17
    /\ ret.labels[7].leftPct = RInt(100)

-----------------------------------------------------------------------------
(* Properties of the iteration detail modal                                *)

\* the iteration of the most recent showIteration
LastShown == requests[Len(requests)].it

\* C18: whenever selectedIteration is not null it is the detail of the
\* iteration passed to the most recent showIteration, for every order of the
\* responses of overlapping requests.
C18_SelectedIterationIsLastShown ==
    crawlerAdmin.selectedIteration # Null =>
        /\ Len(requests) > 0
        /\ crawlerAdmin.selectedIteration = IterationDetail(LastShown)

\* C26: while the modal is open and the detail request of the most recently
\* opened iteration is in flight, loadingIterationDetail is true: the
\* completion of an older request never clears it
C26_SpinnerWhileLatestRequestInFlight ==
    (/\ crawlerAdmin.showIterationModal
     /\ Len(requests) > 0 /\ requests[Len(requests)].state = "pending")
        => crawlerAdmin.loadingIterationDetail

\* a step of onKlinesVolumeBarClick toggles the slot, one of
\* closeIterationModal empties it
ToggleOrReset ==
    /\ (op' = "onKlinesVolumeBarClick") =>
          (selectedVolumeCandleIndex' = (IF selectedVolumeCandleIndex = arg'.originalIdx
                                         THEN NullIndex ELSE arg'.originalIdx))
    /\ (op' = "closeIterationModal") => (selectedVolumeCandleIndex' = NullIndex)

\* C29: onKlinesVolumeBarClick(i) sets selectedVolumeCandleIndex to null when it
\* was i and to i otherwise, closeIterationModal resets it to null, and it is
\* null whenever showIterationModal is false
C29_SelectionIsSingleSlotToggle ==
    /\ [](~crawlerAdmin.showIterationModal => selectedVolumeCandleIndex = NullIndex)
    /\ [][ToggleOrReset]_vars

\* C29 witness: a second click on the selected bar has cleared the selection
\* in the open modal
C29_Witness ==
    /\ op = "onKlinesVolumeBarClick" /\ crawlerAdmin.showIterationModal
    /\ selectedVolumeCandleIndex = NullIndex /\ arg.originalIdx = 1

-----------------------------------------------------------------------------
(* Properties of the Tokens screen                                         *)

\* C19: when saveToken finds a manual token of the same upper-cased symbol it
\* sends no POST and shows the duplicate dialog; confirming the dialog leaves
\* the form open in edit mode for that token (showFormModal, formToken the
\* existing token, formSymbol its symbol), the dialog hidden and
\* pendingAction null.
C19_ConfirmOpensExistingForEdit ==
    /\ (op = "saveToken" /\ tokensView.confirmDuplicate.show) =>
          /\ ret.sent = "none"
          /\ tokensView.confirmDuplicate.existingToken # NoToken
    /\ (op = "onConfirmDuplicate" /\ arg.existingToken # NoToken) =>
          /\ tokensView.showFormModal
          /\ tokensView.formToken = arg.existingToken
          /\ tokensView.formSymbol = arg.existingToken.symbol
          /\ ~tokensView.confirmDuplicate.show
          /\ tokensView.pendingAction = "null"

-----------------------------------------------------------------------------
(* Properties of the volume bars                                           *)

\* the effective volume of a candle as spec.md states it
StatedVolume(c) ==
    IF Has(c, "usd_volume") /\ c.usd_volume > 0 THEN c.usd_volume
    ELSE IF Has(c, "coin_volume") THEN c.coin_volume ELSE 0
\* the largest effective volume of a non-empty sequence
LargestVolume(k) == SetMax({StatedVolume(k[i]) : i \in 1..Len(k)})

\* C21 as stated: klinesVolumeMax is the largest effective volume of the
\* sequence (usd_volume when present and > 0, else coin_volume, else 0), 0 for
\* an empty sequence, and never negative.
C21_VolumeMaxIsLargestVolume ==
    op = "klinesVolumeMax" =>
        /\ ret.max = (IF Len(klines) = 0 THEN 0 ELSE LargestVolume(klines))
        /\ ret.max >= 0

\* C21 as amended: klinesVolumeMax is the larger of 0 and the largest
\* effective volume of the sequence, 0 for an empty sequence; it is never
\* negative.
C21_VolumeMaxIsLargestVolumeOrZero ==
    op = "klinesVolumeMax" =>
        /\ ret.max = (IF Len(klines) = 0 \/ LargestVolume(klines) < 0 THEN 0
                      ELSE LargestVolume(klines))
        /\ ret.max >= 0

\* C21 witness: usd_volume 0 falls back to coin_volume 3, which beats the
\* usd_volume 2 of the other candle
C21_Witness ==
    /\ op = "klinesVolumeMax" /\ Len(klines) = 2
    /\ Has(klines[1], "usd_volume") /\ klines[1].usd_volume = 0
    /\ Has(klines[1], "coin_volume") /\ klines[1].coin_volume = 3
    /\ Has(klines[2], "usd_volume") /\ klines[2].usd_volume = 2
    /\ ret.max = 3

\* C22: when the volume maximum is positive, the height of the bar of every
\* candle of the sequence is max(2, effective volume / maximum x 100), which
\* is in [2, 100] and is 100 for a candle of the largest effective volume.
C22_BarHeightIsFlooredShare ==
    (op = "volumeBarStyle" /\ Len(klines) > 0 /\ LargestVolume(klines) > 0) =>
        /\ Has(ret, "height")
        /\ ret.height = RMax(RInt(2), Rat(StatedVolume(arg.c) * 100, LargestVolume(klines)))
        /\ RLe(RInt(2), ret.height) /\ RLe(ret.height, RInt(100))
        /\ StatedVolume(arg.c) = LargestVolume(klines) => ret.height = RInt(100)

\* C22 witness: a candle of effective volume 0 beside a positive maximum has
\* a bar at the floor
C22_Witness ==
    /\ op = "volumeBarStyle" /\ Len(klines) = 2
    /\ LargestVolume(klines) > 0 /\ StatedVolume(arg.c) = 0
    /\ ret.height = RInt(2)

-----------------------------------------------------------------------------
(* Properties of the price axis and of the columns                         *)

\* C23: for a non-empty candle sequence klinesPriceTicks returns exactly the 6
\* values min + range x i / 5, i = 5..0, strictly descending, the first
\* scale.max and the last scale.min, and priceTickBottomPct maps every tick
\* into [0, 100].
C23_SixDescendingTicks ==
    LET scale == klinesScale(klines)
        range == scale.max - scale.min
    IN  /\ (op = "klinesPriceTicks" /\ Len(klines) > 0) =>
              /\ Len(ret.ticks) = 6
              /\ \A j \in 1..6 : ret.ticks[j] = RAdd(RInt(scale.min), Rat(range * (6 - j), 5))
              /\ \A j \in 1..5 : RLt(ret.ticks[j + 1], ret.ticks[j])
              /\ ret.ticks[1] = RInt(scale.max) /\ ret.ticks[6] = RInt(scale.min)
        /\ (op = "priceTickBottomPct" /\ Len(klines) > 0) =>
              /\ RLe(RInt(0), ret.pct) /\ RLe(ret.pct, RInt(100))
              /\ arg.tick = RInt(scale.max) => ret.pct = RInt(100)

\* C23 witness: the second tick from the top of a chart from 4 to 6 is 5.6,
\* at 80 percent
C23_Witness ==
    /\ op = "priceTickBottomPct" /\ Len(klines) > 0
    /\ klinesScale(klines) = [min |-> 4, max |-> 6]
    /\ arg.tick = Rat(28, 5) /\ arg.tick = klinesPriceTicks(klines)[2]
    /\ ret.pct = RInt(80)

\* the column of candleColStyle does not reach beyond its slot of 100 / count
ColumnInsideSlot ==
    LET count == Len(klines)
        nextLeft == Rat((arg.idx + 1) * 100, count)
    IN  RLe(RAdd(ret.left, ret.width), nextLeft)

ColumnLayout ==
    LET count == Len(klines)
    IN  /\ ret.left = Rat(arg.idx * 100, count)
        /\ ret.width = RMax(Rat(3, 2), Rat(90, count))

\* C24 as stated: left = i / count x 100, width = max(1.5, (100 / count) x 0.9)
\* and every column stays inside its slot: left + width is at most the next
\* column's left, or 100 for the last column.
C24_ColumnsStayInsideSlots ==
    op = "candleColStyle" => (ColumnLayout /\ ColumnInsideSlot)

\* C24 as amended: left and width as stated; the column stays inside its slot
\* exactly when count <= 66; from count = 67 on the floor of 1.5 is wider than
\* the slot.
C24_ColumnsStayInsideSlotsUpTo66 ==
    op = "candleColStyle" => (ColumnLayout /\ (ColumnInsideSlot <=> Len(klines) <= 66))

\* C24 witness: the last of 67 columns ends beyond 100
C24_Witness ==
    /\ op = "candleColStyle" /\ Len(klines) = 67 /\ arg.idx = 66
    /\ ret.width = Rat(3, 2)
    /\ RLt(RInt(100), RAdd(ret.left, ret.width))

-----------------------------------------------------------------------------
(* Properties of the iterations table                                      *)

NoFilterSet ==
    /\ Trim(crawlerAdmin.statusFilter) = "" /\ ~crawlerAdmin.hideIgnoreRecords
    /\ Trim(crawlerAdmin.tokenSearchQuery) = ""

RECURSIVE PagesFrom(_, _)
\* the pages p, p + 1, .. of a filtered list, one after the other
PagesFrom(filtered, p) ==
    IF p > iterationsTotalPages(filtered) THEN <<>>
    ELSE paginatedJobIterations(filtered, p) \o PagesFrom(filtered, p + 1)

\* filtered keeps rows of list, in their order (the ids of list are its positions)
IsSubList(filtered, list) ==
    /\ \A i \in 1..Len(filtered) :
          /\ filtered[i].id \in 1..Len(list) /\ list[filtered[i].id] = filtered[i]
    /\ \A i \in 1..(Len(filtered) - 1) : filtered[i].id < filtered[i + 1].id

PagesPartition(filtered) ==
    /\ \A p \in 1..iterationsTotalPages(filtered) :
          LET page == paginatedJobIterations(filtered, p)
              first == (p - 1) * iterationsPageSize
          IN  /\ Len(page) <= iterationsPageSize
              /\ Len(page) = (IF Len(filtered) - first < iterationsPageSize
                              THEN (IF Len(filtered) > first THEN Len(filtered) - first ELSE 0)
                              ELSE iterationsPageSize)
              /\ \A i \in 1..Len(page) : page[i] = filtered[first + i]
    /\ PagesFrom(filtered, 1) = filtered

\* C28: for every page p in 1..iterationsTotalPages, paginatedJobIterations is
\* the slice [(p-1) x 50, p x 50) of filteredJobIterations in the same order,
\* of at most 50 rows; the pages one after the other are the filtered list;
\* filteredJobIterations is an order-preserving sub-list of jobIterations and
\* equals it when no filter is set. Both components.
C28_PagesPartitionFilteredList ==
    /\ PagesPartition(filteredJobIterations(crawlerAdmin))
    /\ PagesPartition(crawler2FilteredJobIterations(crawlerAdmin))
    /\ IsSubList(filteredJobIterations(crawlerAdmin), crawlerAdmin.jobIterations)
    /\ IsSubList(crawler2FilteredJobIterations(crawlerAdmin), crawlerAdmin.jobIterations)
    /\ NoFilterSet =>
          /\ filteredJobIterations(crawlerAdmin) = crawlerAdmin.jobIterations
          /\ crawler2FilteredJobIterations(crawlerAdmin) = crawlerAdmin.jobIterations

\* C28 witness: the third page of 101 unfiltered rows holds the last row, and
\* the second page of the rows found by a query holds the rest beyond 50
C28_Witness ==
    /\ op = "nextPage" /\ Len(crawlerAdmin.jobIterations) = 101
    /\ \/ /\ NoFilterSet /\ crawlerAdmin.iterationsPage = 3
          /\ paginatedJobIterations(filteredJobIterations(crawlerAdmin), 3)
                = <<IterationRow(1, 101)>>
       \/ /\ ~NoFilterSet /\ crawlerAdmin.iterationsPage = 2
          /\ Len(filteredJobIterations(crawlerAdmin)) > iterationsPageSize


\* C25: whenever jobIterations is non-empty, its rows were fetched for the job
\* now in selectedJob, for every interleaving of selectJob, closeJobPanel and
\* the delivery of iteration responses
C25_IterationsBelongToSelectedJob ==
    Len(crawlerAdmin.jobIterations) > 0 =>
        /\ crawlerAdmin.selectedJob # Null
        /\ \A k \in 1..Len(crawlerAdmin.jobIterations) :
              crawlerAdmin.jobIterations[k].job = crawlerAdmin.selectedJob.id

\* C27: 1 <= iterationsPage <= iterationsTotalPages after any sequence of job
\* selection, job-list reload, filter changes, filter reset and page clicks
C27_PageWithinTotalPages ==
    /\ 1 <= crawlerAdmin.iterationsPage
    /\ crawlerAdmin.iterationsPage <= iterationsTotalPages(filteredJobIterations(crawlerAdmin))
    /\ crawlerAdmin.iterationsPage
          <= iterationsTotalPages(crawler2FilteredJobIterations(crawlerAdmin))

-----------------------------------------------------------------------------
(* Properties of the writes of the Tokens screen                           *)

\* the fields a refused write leaves alone
WriteFields(v) == <<v.saving, v.togglingId, v.error, v.tokens>>

\* the request log only ever holds a PUT or PATCH for a manual token
WritesAreForManualTokens ==
    \A i \in 1..Len(requests) :
        requests[i].method \in {"PUT", "PATCH"} => requests[i].token.source = "manual"

RefusedWriteChangesNothing ==
    /\ (op' = "toggleActive" /\ arg'.token.source # "manual") =>
          (requests' = requests /\ WriteFields(tokensView') = WriteFields(tokensView))
    /\ (/\ op' = "saveToken" /\ ToUpperCase(Trim(arg'.formSymbol)) # ""
        /\ tokensView.formToken # NoToken /\ tokensView.formToken.source # "manual") =>
          (requests' = requests /\ WriteFields(tokensView') = WriteFields(tokensView))
    /\ (op' = "saveToken" /\ ToUpperCase(Trim(arg'.formSymbol)) = "") =>
          (requests' = requests /\ tokensView' = [tokensView EXCEPT !.error = EnterSymbolError])

\* C30: a PUT or PATCH is only issued for a token of source manual: for any
\* other token doPut and toggleActive send nothing and leave saving,
\* togglingId, error and the token list unchanged; saveToken with an empty or
\* whitespace-only symbol sends nothing and only sets the error message
C30_WritesOnlyForManualTokens ==
    /\ []WritesAreForManualTokens
    /\ [][RefusedWriteChangesNothing]_vars

\* C30 witness: toggleActive was refused for the imported token after a PATCH
\* went out for the manual one
C30_Witness ==
    /\ op = "toggleActive" /\ arg.token.source = "coinmarketcap" /\ ret.sent = "none"
    /\ Len(requests) = 1 /\ requests[1].method = "PATCH" /\ requests[1].token.source = "manual"
    /\ tokensView.togglingId = 1

====
